---- MODULE Spec2Model ----
(***************************************************************************)
(* Serial-port connection / upload arbitration of the E-Blocks companion   *)
(* app (src/src/main.mjs): the /api/connect, /api/disconnect,              *)
(* /api/serial/data, /api/serial/send and /api/upload handlers of the      *)
(* Express server, the two process-wide maps they share, and the           *)
(* SerialPort objects they open. Every handler runs on one event loop; a   *)
(* handler is cut into one action per stretch of code between two awaits.  *)
(* The page (src/src/preload.js) is the handlers of its port select, board *)
(* select, refresh and upload buttons, its monitor form and its timers; a  *)
(* request of the page is sent in one step and reaches the server in       *)
(* another. Whether an open() succeeds is the choice of the environment:   *)
(* the server itself keeps no second SerialPort from opening a port.       *)
(* Spec is the five handlers above under any client, every device          *)
(* attached. The other specifications look at one part each: SpecAbsent at *)
(* a port without a device and at requests that lack a field, SpecBuffer   *)
(* at the data buffer of one port, empty to full, SpecPorts at the         *)
(* /api/ports handler, which shares no state with the others, SpecAuto at  *)
(* the upload route with what its toolchain printed, SpecUploads at        *)
(* overlapping uploads, SpecInFlight at connects in flight, SpecLate at    *)
(* errors of closed ports, SpecPage at the uploads of a page, SpecSelect   *)
(* at its port list, port selections and polling, SpecMonitor at its       *)
(* monitor, each with the server behind it.                                *)
(***************************************************************************)
EXTENDS Integers, Sequences, FiniteSets, TLC

\* ---------------------------------------------------------------- bounds
MaxHandles == 2      \* SerialPort objects created by /api/connect
MaxLines == 1        \* lines received from the devices
MaxUploads == 1      \* /api/upload requests
MaxTime == 1         \* values Date.now() takes
MaxWrites == 1       \* write() calls of one port that await their callback
MaxRefreshes == 1    \* refreshPorts calls that await their answer
MaxPolls == 1        \* polls, and sends, of one connection id on their way

\* ------------------------------------------------------ program constants
MaxBuffer == 1000    \* "Keep only last 1000 messages"

Ports == {"COM5", "COM6"}
Auto == "auto"
NoHandle == 0        \* Map.get of a missing key
NoDir == 0           \* let sketchDir (undefined until assigned)
Handles == 1 .. MaxHandles
Uploads == 1 .. MaxUploads
Requests == 1 .. MaxRefreshes

VARIABLES
    serialConnections,   \* port -> the handle registered for it, or NoHandle
    serialDataBuffers,   \* port -> its array of lines; a missing entry reads as []
    hState,              \* handle -> state of the SerialPort object
    hPort,               \* handle -> the path it was constructed with
    disconnecting,       \* handle -> progress of the /api/disconnect closing it
    present,             \* ports a device is attached to
    writing,             \* port -> write() calls whose callback has not run yet
    nLines,              \* lines received so far
    upload,              \* upload request -> its locals and position
    clock,               \* last value Date.now() returned
    dirs,                \* sketch directories that exist under tempDir
    lastResp,            \* the most recent answer a handler gave (res.json)
    listing,             \* GET /api/ports request -> what it reads, its position
    page                 \* the page of the browser window: its globals and controls

vars == <<serialConnections, serialDataBuffers, hState, hPort, disconnecting,
          present, writing, nLines, upload, clock, dirs, lastResp, listing, page>>

\* ------------------------------------------------------------ helpers
\* serialDataBuffers.get(port) || []: a deleted entry and an empty array read alike.
NoBuffer == <<>>

\* What res.json carries: the fields of the answer; data is the array the
\* answer holds, if it holds one.
Resp(op, port, ok, msg) ==
    [op |-> op, port |-> port, ok |-> ok, msg |-> msg, data |-> <<>>]

\* serialPort.isOpen
isOpen(h) == h # NoHandle /\ hState[h] = "open"

\* JavaScript truthiness of a string: only the empty string is falsy.
Falsy(s) == s = ""

UnusedHandles == {h \in Handles : hState[h] = "unused"}

NextHandle == CHOOSE h \in UnusedHandles : \A g \in UnusedHandles : h <= g

\* The body of a POST /api/upload the page has sent and the server has not
\* received yet; the code is not kept, the page sends none that is empty.
NoBody == [port |-> "", board |-> <<>>]

UploadNone ==
    [pc |-> "idle", sent |-> NoBody, uploadPort |-> Auto, finalUploadPort |-> Auto,
     sketchDir |-> NoDir, connection |-> NoHandle, conn |-> NoHandle,
     compiled |-> "none", flashed |-> "none",
     caught |-> [message |-> "", stderr |-> "", stdout |-> ""],
     res |-> [status |-> 0, port |-> "", error |-> ""], shown |-> "none",
     notes |-> [on |-> FALSE, index |-> "none", install |-> "none", warnings |-> "",
               lines |-> <<>>]]

\* What an observer of the toolchain may keep of a request: what the index
\* update and the install ended with, what a compiler that exited zero wrote to
\* stderr, and the lines board list printed. The handler keeps none of it (it
\* logs it); the notes are on for the requests of SpecAuto only.
Noted(up, notes) == IF up.notes.on THEN [up EXCEPT !.notes = notes] ELSE up

\* Strings whose characters the handler looks at are sequences of characters.
Undefined == <<"undefined">>     \* a property the descriptor does not have
Null == <<"null">>

\* JavaScript's a || b on strings.
Or(a, b) == IF a = Undefined \/ a = Null \/ a = <<>> THEN b ELSE a

\* The letters String.prototype.toUpperCase and toLowerCase change, each with
\* what it becomes; every other character stays.
Uppercase ==
    [a |-> "A", b |-> "B", c |-> "C", d |-> "D", e |-> "E", f |-> "F",
     g |-> "G", h |-> "H", i |-> "I", j |-> "J", k |-> "K", l |-> "L",
     m |-> "M", n |-> "N", o |-> "O", p |-> "P", q |-> "Q", r |-> "R",
     s |-> "S", t |-> "T", u |-> "U", v |-> "V", w |-> "W", x |-> "X",
     y |-> "Y", z |-> "Z"]

Lowercase ==
    [A |-> "a", B |-> "b", C |-> "c", D |-> "d", E |-> "e", F |-> "f",
     G |-> "g", H |-> "h", I |-> "i", J |-> "j", K |-> "k", L |-> "l",
     M |-> "m", N |-> "n", O |-> "o", P |-> "p", Q |-> "q", R |-> "r",
     S |-> "s", T |-> "t", U |-> "u", V |-> "v", W |-> "w", X |-> "x",
     Y |-> "y", Z |-> "z"]

LowercaseLetters == DOMAIN Uppercase
UppercaseLetters == DOMAIN Lowercase

toUpperCase(s) ==
    [i \in 1 .. Len(s) |-> IF s[i] \in LowercaseLetters THEN Uppercase[s[i]] ELSE s[i]]

toLowerCase(s) ==
    [i \in 1 .. Len(s) |-> IF s[i] \in UppercaseLetters THEN Lowercase[s[i]] ELSE s[i]]

includes(s, sub) ==
    \E i \in 1 .. Len(s) - Len(sub) + 1 :
        \A k \in 1 .. Len(sub) : s[i + k - 1] = sub[k]

startsWith(s, sub) == Len(s) >= Len(sub) /\ SubSeq(s, 1, Len(sub)) = sub

RECURSIVE join(_)
join(parts) ==
    IF parts = <<>> THEN <<>>
    ELSE IF Len(parts) = 1 THEN parts[1]
    ELSE parts[1] \o <<" ">> \o join(Tail(parts))

Mega == <<"a", "r", "d", "u", "i", "n", "o", ":", "a", "v", "r", ":", "m", "e", "g", "a">>
Esp32 == <<"e", "s", "p", "3", "2", ":", "e", "s", "p", "3", "2", ":", "e", "s", "p", "3", "2">>
Pic == <<"p", "i", "c">>
Unknown == <<"U", "n", "k", "n", "o", "w", "n">>
COM5 == <<"C", "O", "M", "5">>
COM6 == <<"C", "O", "M", "6">>

\* ------------------------------------------------- the page (preload.js)
\* The values of the editor-board-select control.
BoardTypes == {Mega, Esp32, Pic}

NoPort == "null"     \* selectedPort = null

\* Line 92-95 and the controls as initializeApp leaves them: not connected, no
\* port selected or offered, the upload button disabled, nothing known about
\* any port (portInfoMap.get of a port gives no fqbn). refreshing counts the
\* refreshPorts calls that await their answer. calls are the autoConnectToPort
\* calls that await theirs, each with the port it was called for and its
\* request: "sent" (on its way to the server), "pending" on the handle the
\* server is opening for it, or "answered". reads and writes count, for each
\* connection id, the /api/serial/data and /api/serial/send requests on their
\* way to the server.
NoPage ==
    [isConnected |-> FALSE, selectedPort |-> NoPort, detectedBoardFQBN |-> Null,
     boardSelect |-> Mega, portSelect |-> "", uploadDisabled |-> TRUE,
     text |-> "Not connected", polling |-> "",
     portInfoMap |-> [p \in Ports |-> Null],
     options |-> {}, refreshing |-> 0, calls |-> <<>>,
     reads |-> [p \in Ports |-> 0], writes |-> [p \in Ports |-> 0]]

\* JavaScript truthiness of a string that may be null.
Truthy(s) == s # Null /\ s # Undefined /\ s # <<>>

\* Lines 374-398: whether the selected board type matches the detected one.
BoardTypeMatches(selectedBoardType, detectedFQBN, port, connected) ==
    IF selectedBoardType = Pic THEN port # NoPort
    ELSE IF Truthy(selectedBoardType) /\ Truthy(detectedFQBN)
    THEN IF selectedBoardType = Mega THEN startsWith(detectedFQBN, Mega)
         ELSE IF selectedBoardType = Esp32
         THEN startsWith(detectedFQBN, SubSeq(Esp32, 1, 11))
         ELSE \/ detectedFQBN = selectedBoardType
              \/ startsWith(detectedFQBN, selectedBoardType \o <<":">>)
    ELSE FALSE

\* Lines 353-439: updateConnectionStatus(connected, port = null,
\* detectedFQBN = null): the globals are set, and the status text, the upload
\* button and the polling follow from connected && port && boardTypeMatches.
UpdateConnectionStatus(pg, connected, port, detectedFQBN) ==
    LET boardTypeMatches ==
            BoardTypeMatches(pg.boardSelect, detectedFQBN, port, connected)
        isFullyConnected == connected /\ port # NoPort /\ boardTypeMatches
    IN [pg EXCEPT !.isConnected = connected,
                  !.selectedPort = port,
                  !.detectedBoardFQBN = detectedFQBN,
                  !.uploadDisabled = ~isFullyConnected,
                  !.text = IF isFullyConnected THEN "Connected"
                           ELSE IF connected /\ port # NoPort THEN "board mismatch"
                           ELSE "Not connected",
                  !.polling = IF isFullyConnected THEN @ ELSE ""]

\* No GET /api/ports request has been made. cli, lines, portList and
\* listThrows are what the request will find; i is the line of board list the
\* loop is at, ports the array built so far (in the end the one answered),
\* detected the FQBN the loop has for that line, error the message of the
\* error the catch of line 452 caught, success the flag of the answer.
NoListing ==
    [pc |-> "idle", cli |-> "found", lines |-> <<>>, portList |-> <<>>,
     listThrows |-> FALSE, i |-> 0, ports |-> <<>>, detected |-> Null,
     error |-> "", success |-> TRUE]

Init ==
    /\ serialConnections = [p \in Ports |-> NoHandle]
    /\ serialDataBuffers = [p \in Ports |-> NoBuffer]
    /\ hState = [h \in Handles |-> "unused"]
    /\ hPort = [h \in Handles |-> "COM5"]
    /\ disconnecting = [h \in Handles |-> "no"]
    /\ present = Ports
    /\ writing = [p \in Ports |-> 0]
    /\ nLines = 0
    /\ upload = [u \in Uploads |-> UploadNone]
    /\ clock = 1
    /\ dirs = {}
    /\ lastResp = Resp("none", "", TRUE, "")
    /\ listing = [r \in Requests |-> NoListing]
    /\ page = NoPage

\* ------------------------------------------------------ POST /api/connect
\* Lines 732-784: validation, the already-connected check, construction of the
\* SerialPort and the call of open(); the handler then awaits the callback.
Connect_NoCheck(port) ==
    /\ UnusedHandles # {}
    /\ hState' = [hState EXCEPT ![NextHandle] = "opening"]
    /\ hPort' = [hPort EXCEPT ![NextHandle] = port]
    /\ UNCHANGED <<serialConnections, serialDataBuffers, disconnecting,
                   present, writing, listing, page, nLines, upload, clock, dirs, lastResp>>

ConnectHandler(port) ==
    IF serialConnections[port] # NoHandle
    THEN /\ lastResp' = Resp("connect", port, TRUE, "Already connected")
         /\ UNCHANGED <<serialConnections, serialDataBuffers, hState, hPort,
                        disconnecting, present, writing, listing, nLines, upload, clock, dirs>>
    ELSE /\ UnusedHandles # {}
         /\ hState' = [hState EXCEPT ![NextHandle] = "opening"]
         /\ hPort' = [hPort EXCEPT ![NextHandle] = port]
         /\ UNCHANGED <<serialConnections, serialDataBuffers, disconnecting,
                        present, writing, listing, nLines, upload, clock, dirs, lastResp>>

\* The request of any client; the page is left as it is.
Connect(port) == ConnectHandler(port) /\ UNCHANGED page

\* Lines 784-799: open() calls back without an error, which it can on a port
\* a device is attached to; the record is registered, over the one the port may
\* have by now.
ConnectOpened(h) ==
    /\ hState[h] = "opening"
    /\ hPort[h] \in present
    /\ hState' = [hState EXCEPT ![h] = "open"]
    /\ serialConnections' = [serialConnections EXCEPT ![hPort[h]] = h]
    /\ lastResp' = Resp("connect", hPort[h], TRUE, "Connected")
    /\ UNCHANGED <<serialDataBuffers, hPort, disconnecting, present, writing, listing, page, nLines,
                   upload, clock, dirs>>

\* Lines 784-806: open() calls back with an error; the catch answers 500.
ConnectFailed_Registers(h) ==
    /\ hState[h] = "opening"
    /\ hState' = [hState EXCEPT ![h] = "failed"]
    /\ serialConnections' = [serialConnections EXCEPT ![hPort[h]] = h]
    /\ lastResp' = Resp("connect", hPort[h], FALSE, "Failed to connect")
    /\ UNCHANGED <<serialDataBuffers, hPort, disconnecting, present, writing, listing, page, nLines,
                   upload, clock, dirs>>

ConnectFailed(h) ==
    /\ hState[h] = "opening"
    /\ hState' = [hState EXCEPT ![h] = "failed"]
    /\ lastResp' = Resp("connect", hPort[h], FALSE, "Failed to connect")
    /\ UNCHANGED <<serialConnections, serialDataBuffers, hPort, disconnecting,
                   present, writing, listing, page, nLines, upload, clock, dirs>>

\* Lines 777-780: serialPort.on('error') deletes whatever record the port has.
ErrorEvent(h) ==
    /\ hState[h] \in {"open", "closing", "closed"}
    /\ serialConnections' = [serialConnections EXCEPT ![hPort[h]] = NoHandle]
    /\ UNCHANGED <<serialDataBuffers, hState, hPort, disconnecting, present, writing, listing, page,
                   nLines, upload, clock, dirs, lastResp>>

\* Lines 759-774: parser.on('data') appends the line and evicts the oldest.
Push_NoShift(buffer, line) == Append(buffer, line)

Push(buffer, line) ==
    LET pushed == Append(buffer, line)
    IN IF Len(pushed) > MaxBuffer THEN Tail(pushed) ELSE pushed

SerialData(h) ==
    /\ hState[h] = "open"
    /\ nLines < MaxLines
    /\ nLines' = nLines + 1
    /\ serialDataBuffers' =
         [serialDataBuffers EXCEPT ![hPort[h]] = Push(@, nLines + 1)]
    /\ UNCHANGED <<serialConnections, hState, hPort, disconnecting, present, writing, listing, page,
                   upload, clock, dirs, lastResp>>

\* Lines 850-859: GET /api/serial/data/:connectionId returns and clears.
Drained_NoClear(buffer) == [data |-> buffer, left |-> buffer]

Drained(buffer) == [data |-> buffer, left |-> <<>>]

Drain_ClearsAll(connectionId) ==
    /\ serialDataBuffers' = [p \in Ports |-> <<>>]
    /\ lastResp' = [Resp("drain", connectionId, TRUE, "")
                      EXCEPT !.data = Drained(serialDataBuffers[connectionId]).data]
    /\ UNCHANGED <<serialConnections, hState, hPort, disconnecting, present, writing, listing,
                   page, nLines, upload, clock, dirs>>

DrainHandler(connectionId) ==
    /\ serialDataBuffers' =
         [serialDataBuffers EXCEPT ![connectionId] = Drained(@).left]
    /\ lastResp' = [Resp("drain", connectionId, TRUE, "")
                      EXCEPT !.data = Drained(serialDataBuffers[connectionId]).data]
    /\ UNCHANGED <<serialConnections, hState, hPort, disconnecting, present, writing, listing,
                   nLines, upload, clock, dirs>>

\* The request of any client; the page is left as it is.
Drain(connectionId) == DrainHandler(connectionId) /\ UNCHANGED page

\* Lines 1057-1069: POST /api/serial/send up to the call of write(). A request
\* without a connection id or without data answers 400, a missing record 404;
\* otherwise write() is called on the record's port, whatever state the port
\* is in, and the handler returns without an answer.
SendHandler(connectionId, data) ==
    IF Falsy(connectionId) \/ Falsy(data)
    THEN /\ lastResp' = Resp("send", connectionId, FALSE,
                             "Connection ID and data required")
         /\ UNCHANGED <<serialConnections, serialDataBuffers, hState, hPort,
                        disconnecting, present, writing, listing, nLines, upload,
                        clock, dirs>>
    ELSE IF serialConnections[connectionId] = NoHandle
    THEN /\ lastResp' = Resp("send", connectionId, FALSE, "Connection not found")
         /\ UNCHANGED <<serialConnections, serialDataBuffers, hState, hPort,
                        disconnecting, present, writing, listing, nLines, upload,
                        clock, dirs>>
    ELSE /\ writing[connectionId] < MaxWrites
         /\ writing' = [writing EXCEPT ![connectionId] = @ + 1]
         /\ UNCHANGED <<serialConnections, serialDataBuffers, hState, hPort,
                        disconnecting, present, listing, nLines, upload, clock, dirs,
                        lastResp>>

\* The request of any client; the page is left as it is.
Send(connectionId, data) == SendHandler(connectionId, data) /\ UNCHANGED page

\* Lines 1070-1076: the callback of a write() runs, with an error or without
\* one, and answers the request that called it: 500 with the error's message,
\* or success. Whatever other handlers did to the port's record since the
\* request came is not looked at.
SendWritten(connectionId, error) ==
    /\ writing[connectionId] > 0
    /\ writing' = [writing EXCEPT ![connectionId] = @ - 1]
    /\ lastResp' = IF ~Falsy(error) THEN Resp("send", connectionId, FALSE, error)
                   ELSE Resp("send", connectionId, TRUE, "")
    /\ UNCHANGED <<serialConnections, serialDataBuffers, hState, hPort,
                   disconnecting, present, listing, page, nLines, upload, clock, dirs>>

\* What the callback of a write() is called with: nothing, or an error.
WriteErrors == {"", "write failed"}

\* --------------------------------------------------- POST /api/disconnect
\* Lines 817-840 up to the await: the record and the buffer are deleted first,
\* then close() is called on an open port; a port that is not open resolves at
\* once, and a missing record answers "Already disconnected".
Disconnect(connectionId) ==
    LET connection == serialConnections[connectionId] IN
    IF connection # NoHandle
    THEN /\ serialConnections' = [serialConnections EXCEPT ![connectionId] = NoHandle]
         /\ serialDataBuffers' = [serialDataBuffers EXCEPT ![connectionId] = NoBuffer]
         /\ IF isOpen(connection)
            THEN /\ hState' = [hState EXCEPT ![connection] = "closing"]
                 /\ disconnecting' = [disconnecting EXCEPT ![connection] = "waiting"]
                 /\ UNCHANGED lastResp
            ELSE /\ lastResp' = Resp("disconnect", connectionId, TRUE, "Disconnected")
                 /\ UNCHANGED <<hState, disconnecting>>
         /\ UNCHANGED <<hPort, present, writing, listing, page, nLines, upload, clock, dirs>>
    ELSE /\ lastResp' = Resp("disconnect", connectionId, TRUE, "Already disconnected")
         /\ UNCHANGED <<serialConnections, serialDataBuffers, hState, hPort,
                        disconnecting, present, writing, listing, page, nLines, upload, clock, dirs>>

\* The close callback of lines 523 and 827 (and the unobserved completion of the
\* close() of line 606): the port is closed.
PortClosed(h) ==
    /\ hState[h] = "closing"
    /\ hState' = [hState EXCEPT ![h] = "closed"]
    /\ UNCHANGED <<serialConnections, serialDataBuffers, hPort, disconnecting,
                   present, writing, listing, page, nLines, upload, clock, dirs, lastResp>>

\* Lines 830-837: the close callback has armed setTimeout(resolve, 2000); the
\* timer fires and the handler answers.
DisconnectSettled(h) ==
    /\ disconnecting[h] = "waiting"
    /\ hState[h] = "closed"
    /\ disconnecting' = [disconnecting EXCEPT ![h] = "returned"]
    /\ lastResp' = Resp("disconnect", hPort[h], TRUE, "Disconnected")
    /\ UNCHANGED <<serialConnections, serialDataBuffers, hState, hPort, present, writing, listing, page,
                   nLines, upload, clock, dirs>>

\* ------------------------------------------------------- POST /api/upload
Has(port) == port \in Ports /\ serialConnections[port] # NoHandle

\* Lines 635-640: the text of the 500 answer: stderr, else stdout, else message.
ErrorText_StdoutFirst(error) ==
    IF ~Falsy(error.stdout) THEN error.stdout
    ELSE IF ~Falsy(error.stderr) THEN error.stderr
    ELSE error.message

ErrorText(error) ==
    IF ~Falsy(error.stderr) THEN error.stderr
    ELSE IF ~Falsy(error.stdout) THEN error.stdout
    ELSE error.message

\* Lines 262-265: the message findArduinoCLI() throws.
CliNotFound ==
    "Arduino CLI not found. Please install it from https://arduino.github.io/arduino-cli/ or rebuild the app with bundled CLI."

\* What a rejected execAsync carries.
ExecError(command, stderr, stdout) ==
    [message |-> command, stderr |-> stderr, stdout |-> stdout]

Stderrs == {"", "stderr text"}
Stdouts == {"", "stdout text"}

\* rm(sketchDir, { recursive: true, force: true })
Rm(existing, sketchDir) == existing \ {sketchDir}

\* Lines 635-646: the end of the catch block: the answer 500 with the error text.
Caught(up, error) ==
    [up EXCEPT !.pc = "done",
               !.res = [status |-> 500, port |-> "", error |-> ErrorText(error)]]

\* Lines 624-633: the start of the catch block: with a sketch directory named,
\* rm is called and awaited before the answer; with none, the answer is given
\* at once.
Catch(up, error) ==
    IF up.sketchDir # NoDir
    THEN [up EXCEPT !.pc = "cleanup", !.caught = error]
    ELSE Caught(up, error)

\* Lines 627-633: what exists under tempDir once the rm of the catch is done.
CaughtDirs(up, existing) ==
    IF up.sketchDir # NoDir THEN Rm(existing, up.sketchDir) ELSE existing

\* Lines 629-646: the rm the catch awaits has removed the directory, or it is
\* refused and the catch of lines 630-632 only logs that; the handler answers
\* 500 with the text of the error it caught first.
UploadCleaned(u, outcome) ==
    /\ upload[u].pc = "cleanup"
    /\ dirs' = IF outcome = "removed" THEN CaughtDirs(upload[u], dirs) ELSE dirs
    /\ upload' = [upload EXCEPT ![u] =
          [Caught(upload[u], upload[u].caught) EXCEPT !.caught = UploadNone.caught]]
    /\ UNCHANGED <<serialConnections, serialDataBuffers, hState, hPort,
                   disconnecting, present, writing, listing, page, nLines, clock, lastResp>>

\* Lines 521-529: an open port is closed and the handler awaits the close
\* callback and the settling timer; a port that is not open is not waited for.
PreemptPc(connection) == IF isOpen(connection) THEN "release" ELSE "findcli"

\* What a request body carries as code and as board: the sketch or nothing,
\* an FQBN or nothing.
Codes == {"", "void setup(){}"}
Boards == {Undefined, Mega}

\* Lines 502-531 up to the first await: the validation of code and of board,
\* then the pre-emption of a monitoring connection on a concrete port.
UploadHandler(u, portName, code, board) ==
    /\ IF Falsy(code)
       THEN /\ upload' = [upload EXCEPT ![u].pc = "done", ![u].sent = NoBody,
                            ![u].res = [status |-> 400, port |-> "", error |-> "No code provided"]]
            /\ UNCHANGED <<serialConnections, serialDataBuffers, hState>>
       ELSE IF ~Truthy(board)
       THEN /\ upload' = [upload EXCEPT ![u].pc = "done", ![u].sent = NoBody,
                            ![u].res = [status |-> 400, port |-> "", error |-> "No board specified"]]
            /\ UNCHANGED <<serialConnections, serialDataBuffers, hState>>
       ELSE LET uploadPort == IF Falsy(portName) THEN Auto ELSE portName IN
            IF uploadPort # Auto /\ Has(uploadPort)
            THEN LET connection == serialConnections[uploadPort] IN
                 /\ serialConnections' = [serialConnections EXCEPT ![uploadPort] = NoHandle]
                 /\ serialDataBuffers' = [serialDataBuffers EXCEPT ![uploadPort] = NoBuffer]
                 /\ upload' = [upload EXCEPT ![u].pc = PreemptPc(connection),
                                  ![u].sent = NoBody,
                                  ![u].uploadPort = uploadPort,
                                  ![u].connection = connection]
                 /\ IF isOpen(connection)
                    THEN hState' = [hState EXCEPT ![connection] = "closing"]
                    ELSE UNCHANGED hState
            ELSE /\ upload' = [upload EXCEPT ![u].pc = "findcli",
                                  ![u].sent = NoBody,
                                  ![u].uploadPort = uploadPort]
                 /\ UNCHANGED <<serialConnections, serialDataBuffers, hState>>
    /\ UNCHANGED <<hPort, disconnecting, present, writing, listing, nLines, clock, dirs, lastResp>>

\* The requests are numbered as they are made.
Unsent(u) ==
    /\ upload[u].pc = "idle"
    /\ \A v \in DOMAIN upload : v < u => upload[v].pc # "idle"

\* The request of any client; the page is left as it is.
Upload(u, portName, code, board) ==
    /\ Unsent(u)
    /\ UploadHandler(u, portName, code, board)
    /\ UNCHANGED page

\* Lines 522-531: the close callback armed setTimeout(resolve, 2000); it fires.
UploadReleased(u) ==
    /\ upload[u].pc = "release"
    /\ hState[upload[u].connection] = "closed"
    /\ upload' = [upload EXCEPT ![u].pc = "findcli"]
    /\ UNCHANGED <<serialConnections, serialDataBuffers, hState, hPort,
                   disconnecting, present, writing, listing, page, nLines, clock, dirs, lastResp>>

\* The values Date.now() may return: MaxTime of them for each request served.
Times == 1 .. MaxTime * Cardinality(DOMAIN upload)

\* Lines 538-543: findArduinoCLI() resolves, throws or (its probes carry no
\* timeout) never settles; on success the sketch directory is named after
\* Date.now() and mkdir is called. A throw finds no directory named, so the
\* catch answers at once.
UploadFindCLI(u, outcome) ==
    /\ upload[u].pc = "findcli"
    /\ CASE outcome = "found" ->
              \E timestamp \in {t \in Times : t >= clock} :
                  /\ clock' = timestamp
                  /\ upload' = [upload EXCEPT ![u].pc = "mkdir",
                                              ![u].sketchDir = timestamp]
         [] outcome = "missing" ->
              /\ upload' = [upload EXCEPT ![u] =
                              Catch(upload[u], ExecError(CliNotFound, "", ""))]
              /\ UNCHANGED clock
         [] outcome = "hang" ->
              /\ upload' = [upload EXCEPT ![u].pc = "hung"]
              /\ UNCHANGED clock
    /\ UNCHANGED <<serialConnections, serialDataBuffers, hState, hPort,
                   disconnecting, present, writing, listing, page, nLines, dirs, lastResp>>

\* Lines 543-547: mkdir(sketchDir, { recursive: true }) is done: the directory
\* exists (it may have existed already), and writeFile is called.
UploadMkdir(u, outcome) ==
    /\ upload[u].pc = "mkdir"
    /\ IF outcome = "made"
       THEN /\ dirs' = dirs \cup {upload[u].sketchDir}
            /\ upload' = [upload EXCEPT ![u].pc = "write_file"]
       ELSE /\ upload' = [upload EXCEPT ![u] =
                  Catch(upload[u], ExecError("mkdir failed", "", ""))]
            /\ UNCHANGED dirs
    /\ UNCHANGED <<serialConnections, serialDataBuffers, hState, hPort,
                   disconnecting, present, writing, listing, page, nLines, clock, lastResp>>

\* Lines 547-551: writeFile resolves and core update-index is started, or it
\* rejects into the catch.
UploadWriteFile(u, outcome) ==
    /\ upload[u].pc = "write_file"
    /\ upload' = [upload EXCEPT ![u] =
          IF outcome = "written" THEN [upload[u] EXCEPT !.pc = "update_index"]
          ELSE Catch(upload[u], ExecError("write failed", "", ""))]
    /\ UNCHANGED <<serialConnections, serialDataBuffers, hState, hPort,
                   disconnecting, present, writing, listing, page, nLines, clock, dirs, lastResp>>

\* Lines 549-554: core update-index, 60 s timeout. The catch swallows a failure
\* or a timeout and only logs it.
UploadUpdateIndex(u, outcome) ==
    /\ upload[u].pc = "update_index"
    /\ upload' = [upload EXCEPT ![u] =
          Noted([upload[u] EXCEPT !.pc = "install"],
                [upload[u].notes EXCEPT !.index = outcome])]
    /\ UNCHANGED <<serialConnections, serialDataBuffers, hState, hPort,
                   disconnecting, present, writing, listing, page, nLines, clock, dirs, lastResp>>

\* Lines 556-562: core install, 120 s timeout. The catch swallows a failure or
\* a timeout and only logs it.
UploadInstall(u, outcome) ==
    /\ upload[u].pc = "install"
    /\ upload' = [upload EXCEPT ![u] =
          Noted([upload[u] EXCEPT !.pc = "compile"],
                [upload[u].notes EXCEPT !.install = outcome])]
    /\ UNCHANGED <<serialConnections, serialDataBuffers, hState, hPort,
                   disconnecting, present, writing, listing, page, nLines, clock, dirs, lastResp>>

\* Lines 599-613 with no await in between: the re-check of the registry (the
\* record is deleted, close() is called and not awaited, a 2 s timer is awaited)
\* and otherwise the start of the flash subprocess. up is the request's record
\* as the caller leaves it.
Flashing(up, finalUploadPort) ==
    [up EXCEPT !.pc = "flash", !.finalUploadPort = finalUploadPort,
               !.flashed = "running"]

DoubleCheck(u, up, finalUploadPort) ==
    IF Has(finalUploadPort)
    THEN LET conn == serialConnections[finalUploadPort] IN
         /\ serialConnections' = [serialConnections EXCEPT ![finalUploadPort] = NoHandle]
         /\ IF isOpen(conn)
            THEN /\ hState' = [hState EXCEPT ![conn] = "closing"]
                 /\ upload' = [upload EXCEPT ![u] =
                        [up EXCEPT !.pc = "settle", !.conn = conn,
                                   !.finalUploadPort = finalUploadPort]]
            ELSE /\ upload' = [upload EXCEPT ![u] =
                        [Flashing(up, finalUploadPort) EXCEPT !.conn = conn]]
                 /\ UNCHANGED hState
    ELSE /\ upload' = [upload EXCEPT ![u] = Flashing(up, finalUploadPort)]
         /\ UNCHANGED <<serialConnections, hState>>

\* Lines 592-597: the early return on a falsy resolved port, which removes
\* nothing; otherwise the sequence goes on to the re-check.
BeforeFlash(u, up, finalUploadPort) ==
    IF Falsy(finalUploadPort)
    THEN /\ upload' = [upload EXCEPT ![u] =
                [up EXCEPT !.pc = "done", !.finalUploadPort = finalUploadPort,
                           !.res = [status |-> 400, port |-> "",
                                    error |-> "No serial port found"]]]
         /\ UNCHANGED <<serialConnections, hState>>
    ELSE DoubleCheck(u, up, finalUploadPort)

\* Lines 564-590: the compile subprocess ends (120 s timeout; a timeout rejects
\* like a non-zero exit, into the catch). A zero exit goes on to the port resolution, whatever
\* the compiler wrote to stderr (lines 568-570 log it): a concrete port is used
\* as it is, "auto" waits for board list.
UploadCompile(u, exit, stderr, stdout) ==
    /\ upload[u].pc = "compile"
    /\ IF exit # 0
       THEN /\ upload' = [upload EXCEPT ![u] =
                  [Catch(upload[u], ExecError("Command failed: compile", stderr, stdout))
                     EXCEPT !.compiled = "failed"]]
            /\ UNCHANGED <<serialConnections, hState>>
       ELSE LET up == Noted([upload[u] EXCEPT !.compiled = "ok"],
                            [upload[u].notes EXCEPT !.warnings = stderr])
            IN IF up.uploadPort = Auto
               THEN /\ upload' = [upload EXCEPT ![u] = [up EXCEPT !.pc = "board_list"]]
                    /\ UNCHANGED <<serialConnections, hState>>
               ELSE BeforeFlash(u, up, up.uploadPort)
    /\ UNCHANGED <<serialDataBuffers, hPort, disconnecting, present, writing, listing, page, nLines,
                   clock, dirs, lastResp>>

\* Lines 579-581: the texts the lines are searched for.
DISCONNECTED == <<"D", "i", "s", "c", "o", "n", "n", "e", "c", "t", "e", "d">>
EBLOCKS == <<"E", "B", "L", "O", "C", "K", "S">>
MEGA == <<"M", "E", "G", "A">>
ARDUINO == <<"A", "R", "D", "U", "I", "N", "O">>

\* Texts board list prints in a row.
ARDUINO_UNO == <<"A", "r", "d", "u", "i", "n", "o", " ", "U", "n", "o">>
LOWER_MEGA == <<"m", "e", "g", "a", "2", "5", "6", "0">>
MIXED_EBLOCKS == <<"E", "B", "l", "o", "c", "k", "s">>
DISCONNECTED_MEGA == <<"D", "i", "s", "c", "o", "n", "n", "e", "c", "t", "e", "d", " ", "M", "e", "g", "a">>

\* String.prototype.trim and split(/\s+/)[0] of a trimmed string.
IsSpace(c) == c \in {" ", "\t", "\r", "\n"}

RECURSIVE trimStart(_)
trimStart(s) ==
    IF s # <<>> /\ IsSpace(Head(s)) THEN trimStart(Tail(s)) ELSE s

RECURSIVE trimEnd(_)
trimEnd(s) ==
    IF s # <<>> /\ IsSpace(s[Len(s)]) THEN trimEnd(SubSeq(s, 1, Len(s) - 1)) ELSE s

trim(s) == trimEnd(trimStart(s))

FirstToken(s) ==
    LET spaces == {i \in 1 .. Len(s) : IsSpace(s[i])} IN
    IF spaces = {} THEN s
    ELSE SubSeq(s, 1, (CHOOSE i \in spaces : \A j \in spaces : i <= j) - 1)

\* The port a path names.
PortName(path) == IF path = COM5 THEN "COM5" ELSE IF path = COM6 THEN "COM6" ELSE Auto

\* What board list prints after a port name: the rest of a line of the table.
MarkerRests ==
    {ARDUINO_UNO, LOWER_MEGA, MIXED_EBLOCKS}
PlainRests == {<<>>, Unknown, Esp32}
DisconnectedRests == {DISCONNECTED, DISCONNECTED_MEGA}

Line(path, rest) == IF rest = <<>> THEN path ELSE path \o <<" ">> \o rest

\* One line of portList.split('\n').slice(1): empty, blank, or a row of the
\* table, which may start with blanks and end with the \r of a Windows line end.
BoardLines ==
    {<<>>, <<" ", "\r">>,
     Line(COM5, ARDUINO_UNO), Line(COM5, Unknown), Line(COM5, DISCONNECTED),
     Line(COM6, LOWER_MEGA), Line(COM6, MIXED_EBLOCKS), Line(COM6, <<>>),
     Line(COM6, Esp32), Line(COM6, DISCONNECTED_MEGA),
     <<" ">> \o Line(COM6, LOWER_MEGA) \o <<"\r">>}

MaxBoards == 2       \* lines board list prints below its header

Listings == UNION {[1 .. n -> BoardLines] : n \in 0 .. MaxBoards}

\* lines.find(predicate), given the indices the predicate holds at: the first
\* such element, or none.
Find(lines, hits) ==
    IF hits = {} THEN <<>>
    ELSE <<lines[CHOOSE i \in hits : \A j \in hits : i <= j]>>

\* Lines 576-587: the port the "auto" request resolves to.
AutoPort_FirstRow(lines) ==
    LET Usable(line) == trim(line) # <<>> /\ ~includes(line, DISCONNECTED)
        firstPort == Find(lines, {i \in 1 .. Len(lines) : Usable(lines[i])})
    IN IF firstPort # <<>> THEN PortName(FirstToken(trim(firstPort[1]))) ELSE Auto

AutoPort(lines) ==
    LET Usable(line) == trim(line) # <<>> /\ ~includes(line, DISCONNECTED)
        Marked(line) ==
            LET upper == toUpperCase(line) IN
            \/ includes(upper, EBLOCKS)
            \/ includes(upper, MEGA)
            \/ includes(upper, ARDUINO)
        eblocksPort ==
            Find(lines, {i \in 1 .. Len(lines) : Usable(lines[i]) /\ Marked(lines[i])})
        firstPort ==
            IF eblocksPort # <<>> THEN eblocksPort
            ELSE Find(lines, {i \in 1 .. Len(lines) : Usable(lines[i])})
    IN IF firstPort # <<>> THEN PortName(FirstToken(trim(firstPort[1]))) ELSE Auto

\* Lines 572-613 for "auto": board list (no timeout) ends, fails into the
\* catch or never ends.
UploadBoardList(u, outcome, lines, stderr, stdout) ==
    /\ upload[u].pc = "board_list"
    /\ CASE outcome = "listed" ->
              \E finalUploadPort \in {AutoPort(lines)} :
                  BeforeFlash(u, Noted(upload[u], [upload[u].notes EXCEPT !.lines = lines]),
                              finalUploadPort)
         [] outcome = "failed" ->
              /\ upload' = [upload EXCEPT ![u] =
                              Catch(upload[u],
                                    ExecError("Command failed: board list", stderr, stdout))]
              /\ UNCHANGED <<serialConnections, hState>>
         [] outcome = "hang" ->
              /\ upload' = [upload EXCEPT ![u].pc = "hung"]
              /\ UNCHANGED <<serialConnections, hState>>
    /\ UNCHANGED <<serialDataBuffers, hPort, disconnecting, present, writing, listing, page, nLines,
                   clock, dirs, lastResp>>

\* Line 607: the 2 s timer armed right after close() fires; nothing ties it to
\* the completion of the close. The flash subprocess starts.
UploadSettled(u) ==
    /\ upload[u].pc = "settle"
    /\ upload' = [upload EXCEPT ![u] = Flashing(upload[u], upload[u].finalUploadPort)]
    /\ UNCHANGED <<serialConnections, serialDataBuffers, hState, hPort,
                   disconnecting, present, writing, listing, page, nLines, clock, dirs, lastResp>>

\* Lines 613-615 and 624-629: the flash subprocess ends (60 s timeout). A zero
\* exit calls rm on the sketch directory and awaits it; anything else goes
\* into the catch.
UploadFlash(u, exit, stderr, stdout) ==
    /\ upload[u].pc = "flash"
    /\ upload' = [upload EXCEPT ![u] =
          IF exit # 0
          THEN [Catch(upload[u], ExecError("Command failed: upload", stderr, stdout))
                  EXCEPT !.flashed = "failed"]
          ELSE [upload[u] EXCEPT !.pc = "remove", !.flashed = "ok"]]
    /\ UNCHANGED <<serialConnections, serialDataBuffers, hState, hPort,
                   disconnecting, present, writing, listing, page, nLines, clock, dirs, lastResp>>

\* Lines 615-622: the rm awaited after a flash that exited zero is done; the
\* handler answers the success with the port it flashed.
UploadRemoved(u, outcome) ==
    /\ upload[u].pc = "remove"
    /\ IF outcome = "removed"
       THEN /\ dirs' = Rm(dirs, upload[u].sketchDir)
            /\ upload' = [upload EXCEPT ![u].pc = "done",
                                        ![u].res = [status |-> 200,
                                                    port |-> upload[u].finalUploadPort,
                                                    error |-> ""]]
       ELSE /\ upload' = [upload EXCEPT ![u] =
                  Catch(upload[u], ExecError("rm failed", "", ""))]
            /\ UNCHANGED dirs
    /\ UNCHANGED <<serialConnections, serialDataBuffers, hState, hPort,
                   disconnecting, present, writing, listing, page, nLines, clock, lastResp>>

\* preload.js lines 576-593, uploadCode after its fetch has resolved before
\* the timeout: a success is shown and updateConnectionStatus(true,
\* result.port) marks the page as connected to the returned port; a failure is
\* shown as an error; either way the finally block enables the upload button
\* again. No request is sent to the server.
UploadCode(u) ==
    /\ upload[u].pc = "done"
    /\ upload[u].shown = "none"
    /\ upload' = [upload EXCEPT ![u].shown =
                    IF upload[u].res.status = 200 /\ ~Falsy(upload[u].res.port)
                    THEN upload[u].res.port ELSE "error"]
    /\ page' = [(IF upload[u].res.status = 200 /\ ~Falsy(upload[u].res.port)
                 THEN UpdateConnectionStatus(page, TRUE, upload[u].res.port, Null)
                 ELSE page)
                  EXCEPT !.uploadDisabled = FALSE]
    /\ UNCHANGED <<serialConnections, serialDataBuffers, hState, hPort,
                   disconnecting, present, writing, listing, nLines, clock, dirs, lastResp>>

\* preload.js lines 572-576 and 587-593: the 180000 ms timer of uploadCode
\* fires before the page has the answer of /api/upload. Promise.race rejects, the
\* catch shows the error and the finally block enables the upload button; the
\* server goes on with the request, whose answer the page will not look at.
UploadTimeout(u) ==
    /\ upload[u].pc # "idle"
    /\ upload[u].shown = "none"
    /\ upload' = [upload EXCEPT ![u].shown = "error"]
    /\ page' = [page EXCEPT !.uploadDisabled = FALSE]
    /\ UNCHANGED <<serialConnections, serialDataBuffers, hState, hPort,
                   disconnecting, present, writing, listing, nLines, clock, dirs, lastResp>>

\* autoConnectToPort calls the page may have awaiting an answer at a time.
\* MaxRefreshes bounds the same for the refreshPorts calls and MaxPolls, for
\* each connection id, for the polls and for the sends.
MaxCalls == 2

\* preload.js lines 3278-3281 and 800-818: the change handler of
\* com-port-select calls autoConnectToPort with the value chosen, one of the
\* options of the select: an empty choice only marks the page as not
\* connected; otherwise the page is marked as not connected, /api/connect is
\* called for the chosen port and the handler returns to the event loop.
\* Nothing waits for the answer of an earlier call, and no /api/disconnect is
\* sent for the port shown as connected so far.
SelectPort(portPath) ==
    /\ portPath \in page.options \cup {""}
    /\ portPath # page.portSelect
    /\ IF Falsy(portPath)
       THEN page' = [UpdateConnectionStatus(page, FALSE, NoPort, Null)
                       EXCEPT !.portSelect = portPath]
       ELSE /\ Len(page.calls) < MaxCalls
            /\ page' = [UpdateConnectionStatus(page, FALSE, NoPort, Null)
                          EXCEPT !.portSelect = portPath,
                                 !.calls = Append(@, [portPath |-> portPath,
                                                      request |-> "sent",
                                                      awaited |-> NoHandle])]
    /\ UNCHANGED <<serialConnections, serialDataBuffers, hState, hPort,
                   disconnecting, present, writing, listing, nLines, upload, clock, dirs,
                   lastResp>>

\* The /api/connect request of the i-th outstanding call reaches the server:
\* main.mjs lines 732-784 run for its port.
PageConnect(i) ==
    /\ i \in DOMAIN page.calls
    /\ page.calls[i].request = "sent"
    /\ ConnectHandler(page.calls[i].portPath)
    /\ page' = [page EXCEPT !.calls[i] =
                  IF serialConnections[page.calls[i].portPath] # NoHandle
                  THEN [@ EXCEPT !.request = "answered"]
                  ELSE [@ EXCEPT !.request = "pending", !.awaited = NextHandle]]

\* preload.js lines 819-843: the answer of /api/connect has arrived for the
\* i-th outstanding call. On success the page is marked as connected to
\* portPath, the argument of the call, with the FQBN the port list gave for
\* it, and the polling of its data starts; otherwise not connected. What the
\* select shows by now is not looked at.
AutoConnected(i) ==
    /\ i \in DOMAIN page.calls
    /\ \/ page.calls[i].request = "answered"
       \/ /\ page.calls[i].request = "pending"
          /\ hState[page.calls[i].awaited] # "opening"
    /\ LET portPath == page.calls[i].portPath
           success == \/ page.calls[i].request = "answered"
                      \/ hState[page.calls[i].awaited] # "failed"
           Without(seq) == SubSeq(seq, 1, i - 1) \o SubSeq(seq, i + 1, Len(seq))
       IN page' = [(IF success
                    THEN [UpdateConnectionStatus(page, TRUE, portPath,
                                                 page.portInfoMap[portPath])
                            EXCEPT !.polling = portPath]
                    ELSE UpdateConnectionStatus(page, FALSE, NoPort, Null))
                     EXCEPT !.calls = Without(@)]
    /\ UNCHANGED <<serialConnections, serialDataBuffers, hState, hPort,
                   disconnecting, present, writing, listing, nLines, upload, clock, dirs,
                   lastResp>>

\* preload.js lines 3284 and 704-738: the change handler of editor-board-select,
\* updateBoardImage: the connection status is validated again against the newly
\* selected board type, with the FQBN the port list gave for the port.
SelectBoard(boardType) ==
    /\ boardType # page.boardSelect
    /\ LET selected == [page EXCEPT !.boardSelect = boardType] IN
       page' = IF page.isConnected /\ page.selectedPort # NoPort
               THEN UpdateConnectionStatus(selected, page.isConnected,
                                           page.selectedPort,
                                           page.portInfoMap[page.selectedPort])
               ELSE UpdateConnectionStatus(selected, FALSE, NoPort, Null)
    /\ UNCHANGED <<serialConnections, serialDataBuffers, hState, hPort,
                   disconnecting, present, writing, listing, nLines, upload, clock, dirs,
                   lastResp>>

\* preload.js lines 3310-3318: the interval startSerialPolling has set ticks
\* while the page is marked as connected: /api/serial/data is called for the
\* connection id the interval was started with, whether or not the answer of
\* an earlier tick is there.
PollTick ==
    /\ page.polling # ""
    /\ page.isConnected
    /\ page.reads[page.polling] < MaxPolls
    /\ page' = [page EXCEPT !.reads[page.polling] = @ + 1]
    /\ UNCHANGED <<serialConnections, serialDataBuffers, hState, hPort,
                   disconnecting, present, writing, listing, nLines, upload, clock, dirs,
                   lastResp>>

\* The /api/serial/data request of a tick reaches the server: main.mjs lines
\* 850-859 run for its connection id. The page adds the lines of the answer to
\* its monitor.
PollServed(connectionId) ==
    /\ page.reads[connectionId] > 0
    /\ DrainHandler(connectionId)
    /\ page' = [page EXCEPT !.reads[connectionId] = @ - 1]

\* preload.js lines 3294-3301 and 680-692: the form of the monitor is
\* submitted with some text while the page is marked as connected to a port:
\* sendSerialData calls /api/serial/send for selectedPort, whether or not an
\* earlier send has been answered.
SendSerialData ==
    /\ page.selectedPort # NoPort
    /\ page.isConnected
    /\ page.writes[page.selectedPort] < MaxPolls
    /\ page' = [page EXCEPT !.writes[page.selectedPort] = @ + 1]
    /\ UNCHANGED <<serialConnections, serialDataBuffers, hState, hPort,
                   disconnecting, present, writing, listing, nLines, upload, clock, dirs,
                   lastResp>>

\* The /api/serial/send request of the page reaches the server: main.mjs lines
\* 1057-1069 run for its connection id and the text of the form, which is
\* never empty; the answer, given at once or by SendWritten, is only logged.
SendServed(connectionId) ==
    /\ page.writes[connectionId] > 0
    /\ SendHandler(connectionId, "M1 on")
    /\ page' = [page EXCEPT !.writes[connectionId] = @ - 1]

\* preload.js lines 3253-3264 and 534-571: a click on the upload button. A
\* disabled button only flashes a warning; otherwise uploadCode, which returns
\* early while the select shows no port, disables the button, posts the code
\* (never empty) and the value of the board select to /api/upload for the port
\* the select shows, and awaits the answer or its timer.
ClickUpload(u) ==
    /\ ~page.uploadDisabled
    /\ ~Falsy(page.portSelect)
    /\ Unsent(u)
    /\ page' = [page EXCEPT !.uploadDisabled = TRUE]
    /\ upload' = [upload EXCEPT ![u].pc = "sent",
                                ![u].sent = [port |-> page.portSelect,
                                             board |-> page.boardSelect]]
    /\ UNCHANGED <<serialConnections, serialDataBuffers, hState, hPort,
                   disconnecting, present, writing, listing, nLines, clock, dirs, lastResp>>

\* The /api/upload request of the page reaches the server: main.mjs lines
\* 502-531 run on its body.
UploadSent(u) ==
    /\ upload[u].pc = "sent"
    /\ UploadHandler(u, upload[u].sent.port, "void setup(){}", upload[u].sent.board)
    /\ UNCHANGED page

\* A board list for each port an "auto" request can resolve to: no usable row,
\* a first row of COM5, a first row of COM6.
Resolving == {<<>>, <<Line(COM5, ARDUINO_UNO)>>, <<Line(COM6, <<>>)>>}

\* Every handler under any client, every device attached. What a request
\* without code, board, connection id or data is answered, what the toolchain
\* prints and what board list may list are left to SpecAbsent and SpecAuto:
\* here every send names a port and carries text, the toolchain prints
\* nothing, and board list prints one of Resolving.
Next ==
    \/ \E p \in Ports : Connect(p)
    \/ \E h \in Handles : ConnectOpened(h)
    \/ \E h \in Handles : ConnectFailed(h)
    \/ \E h \in Handles : ErrorEvent(h)
    \/ \E h \in Handles : SerialData(h)
    \/ \E p \in Ports : Drain(p)
    \/ \E p \in Ports : Send(p, "M1 on")
    \/ \E p \in Ports, error \in WriteErrors : SendWritten(p, error)
    \/ \E p \in Ports : Disconnect(p)
    \/ \E h \in Handles : PortClosed(h)
    \/ \E h \in Handles : DisconnectSettled(h)
    \/ \E u \in Uploads, portName \in Ports \cup {""}, code \in Codes, board \in Boards :
          Upload(u, portName, code, board)
    \/ \E u \in Uploads : UploadReleased(u)
    \/ \E u \in Uploads, outcome \in {"found", "missing", "hang"} :
          UploadFindCLI(u, outcome)
    \/ \E u \in Uploads , outcome \in {"made", "refused"} : UploadMkdir(u, outcome)
    \/ \E u \in Uploads, outcome \in {"written", "refused"} : UploadWriteFile(u, outcome)
    \/ \E u \in Uploads, outcome \in {"ok", "failed", "timeout"} : UploadUpdateIndex(u, outcome)
    \/ \E u \in Uploads, outcome \in {"ok", "failed", "timeout"} : UploadInstall(u, outcome)
    \/ \E u \in Uploads, exit \in {0, 1}, stderr \in {""}, stdout \in {""} :
          UploadCompile(u, exit, stderr, stdout)
    \/ \E u \in Uploads, lines \in Resolving : UploadBoardList(u, "listed", lines, "", "")
    \/ \E u \in Uploads, stderr \in {""}, stdout \in {""} :
          UploadBoardList(u, "failed", <<>>, stderr, stdout)
    \/ \E u \in Uploads : UploadBoardList(u, "hang", <<>>, "", "")
    \/ \E u \in Uploads : UploadSettled(u)
    \/ \E u \in Uploads, exit \in {0, 1}, stderr \in {""}, stdout \in {""} :
          UploadFlash(u, exit, stderr, stdout)
    \/ \E u \in Uploads , outcome \in {"removed", "refused"} : UploadRemoved(u, outcome)
    \/ \E u \in Uploads , outcome \in {"removed", "refused"} : UploadCleaned(u, outcome)

Spec == Init /\ [][Next]_vars

\* ------------------------------------------------ the upload route alone
\* Upload requests while nobody monitors a port: what remains is the sequence
\* of the toolchain's steps, with everything board list may print.
NextAuto ==
    \/ \E u \in Uploads, portName \in Ports \cup {""}, code \in Codes, board \in Boards :
          Upload(u, portName, code, board)
    \/ \E u \in Uploads, outcome \in {"found", "missing", "hang"} :
          UploadFindCLI(u, outcome)
    \/ \E u \in Uploads , outcome \in {"made", "refused"} : UploadMkdir(u, outcome)
    \/ \E u \in Uploads, outcome \in {"written", "refused"} : UploadWriteFile(u, outcome)
    \/ \E u \in Uploads, outcome \in {"ok", "failed", "timeout"} :
          UploadUpdateIndex(u, outcome)
    \/ \E u \in Uploads, outcome \in {"ok", "failed", "timeout"} :
          UploadInstall(u, outcome)
    \/ \E u \in Uploads, exit \in {0, 1}, stderr \in Stderrs, stdout \in Stdouts :
          UploadCompile(u, exit, stderr, stdout)
    \/ \E u \in Uploads, lines \in Listings : UploadBoardList(u, "listed", lines, "", "")
    \/ \E u \in Uploads, stderr \in Stderrs, stdout \in Stdouts :
          UploadBoardList(u, "failed", <<>>, stderr, stdout)
    \/ \E u \in Uploads : UploadBoardList(u, "hang", <<>>, "", "")
    \/ \E u \in Uploads, exit \in {0, 1}, stderr \in Stderrs, stdout \in Stdouts :
          UploadFlash(u, exit, stderr, stdout)
    \/ \E u \in Uploads , outcome \in {"removed", "refused"} : UploadRemoved(u, outcome)
    \/ \E u \in Uploads , outcome \in {"removed", "refused"} : UploadCleaned(u, outcome)

InitAuto ==
    /\ serialConnections = [p \in Ports |-> NoHandle]
    /\ serialDataBuffers = [p \in Ports |-> NoBuffer]
    /\ hState = [h \in Handles |-> "unused"]
    /\ hPort = [h \in Handles |-> "COM5"]
    /\ disconnecting = [h \in Handles |-> "no"]
    /\ present = Ports
    /\ writing = [p \in Ports |-> 0]
    /\ nLines = 0
    /\ upload = [u \in Uploads |-> [UploadNone EXCEPT !.notes.on = TRUE]]
    /\ clock = 1
    /\ dirs = {}
    /\ lastResp = Resp("none", "", TRUE, "")
    /\ listing = [r \in Requests |-> NoListing]
    /\ page = NoPage

SpecAuto == InitAuto /\ [][NextAuto]_vars

\* ------------------------------------------------ overlapping uploads
\* One upload request more than Uploads, and nobody monitoring a port: the
\* requests are served as they come, each step of one between any two steps of
\* another.
Overlapping == 1 .. MaxUploads + 1

InitUploads ==
    /\ serialConnections = [p \in Ports |-> NoHandle]
    /\ serialDataBuffers = [p \in Ports |-> NoBuffer]
    /\ hState = [h \in Handles |-> "unused"]
    /\ hPort = [h \in Handles |-> "COM5"]
    /\ disconnecting = [h \in Handles |-> "no"]
    /\ present \in {{"COM5"}, {"COM5", "COM6"}}
    /\ writing = [p \in Ports |-> 0]
    /\ nLines = 0
    /\ upload = [u \in Overlapping |-> UploadNone]
    /\ clock = 1
    /\ dirs = {}
    /\ lastResp = Resp("none", "", TRUE, "")
    /\ listing = [r \in Requests |-> NoListing]
    /\ page = NoPage

NextUploads ==
    \/ \E u \in Overlapping, portName \in Ports \cup {""}, code \in Codes, board \in Boards :
          Upload(u, portName, code, board)
    \/ \E u \in Overlapping, outcome \in {"found", "missing", "hang"} :
          UploadFindCLI(u, outcome)
    \/ \E u \in Overlapping , outcome \in {"made", "refused"} : UploadMkdir(u, outcome)
    \/ \E u \in Overlapping, outcome \in {"written", "refused"} : UploadWriteFile(u, outcome)
    \/ \E u \in Overlapping, outcome \in {"ok", "failed", "timeout"} : UploadUpdateIndex(u, outcome)
    \/ \E u \in Overlapping, outcome \in {"ok", "failed", "timeout"} : UploadInstall(u, outcome)
    \/ \E u \in Overlapping, exit \in {0, 1}, stderr \in Stderrs, stdout \in Stdouts :
          UploadCompile(u, exit, stderr, stdout)
    \/ \E u \in Overlapping, lines \in Listings : UploadBoardList(u, "listed", lines, "", "")
    \/ \E u \in Overlapping, stderr \in Stderrs, stdout \in Stdouts :
          UploadBoardList(u, "failed", <<>>, stderr, stdout)
    \/ \E u \in Overlapping : UploadBoardList(u, "hang", <<>>, "", "")
    \/ \E u \in Overlapping, exit \in {0, 1}, stderr \in Stderrs, stdout \in Stdouts :
          UploadFlash(u, exit, stderr, stdout)
    \/ \E u \in Overlapping , outcome \in {"removed", "refused"} : UploadRemoved(u, outcome)
    \/ \E u \in Overlapping , outcome \in {"removed", "refused"} : UploadCleaned(u, outcome)

SpecUploads == InitUploads /\ [][NextUploads]_vars

\* ------------------------------------------------- connects in flight
\* Every /api/connect request there will be has been made already and has
\* called open(); none of the opens has called back yet.
InitInFlight ==
    /\ serialConnections = [p \in Ports |-> NoHandle]
    /\ serialDataBuffers = [p \in Ports |-> NoBuffer]
    /\ hState = [h \in Handles |-> "opening"]
    /\ hPort \in [Handles -> Ports]
    /\ disconnecting = [h \in Handles |-> "no"]
    /\ present \in {{"COM5"}, {"COM5", "COM6"}}
    /\ writing = [p \in Ports |-> 0]
    /\ nLines = 0
    /\ upload = [u \in Uploads |-> UploadNone]
    /\ clock = 1
    /\ dirs = {}
    /\ lastResp = Resp("none", "", TRUE, "")
    /\ listing = [r \in Requests |-> NoListing]
    /\ page = NoPage

NextInFlight ==
    \/ \E h \in Handles : ConnectOpened(h)
    \/ \E h \in Handles : ConnectFailed(h)
    \/ \E h \in Handles : ErrorEvent(h)
    \/ \E h \in Handles : SerialData(h)
    \/ \E p \in Ports : Drain(p)
    \/ \E p \in Ports : Disconnect(p)
    \/ \E h \in Handles : PortClosed(h)
    \/ \E h \in Handles : DisconnectSettled(h)

SpecInFlight == InitInFlight /\ [][NextInFlight]_vars

\* ------------------------------------------------- a port without a device
\* No device is attached to COM6: no open of it succeeds. The clients connect,
\* read, write and disconnect, with requests that lack the connection id or
\* the data among them.
InitAbsent ==
    /\ serialConnections = [p \in Ports |-> NoHandle]
    /\ serialDataBuffers = [p \in Ports |-> NoBuffer]
    /\ hState = [h \in Handles |-> "unused"]
    /\ hPort = [h \in Handles |-> "COM5"]
    /\ disconnecting = [h \in Handles |-> "no"]
    /\ present = {"COM5"}
    /\ writing = [p \in Ports |-> 0]
    /\ nLines = 0
    /\ upload = [u \in Uploads |-> UploadNone]
    /\ clock = 1
    /\ dirs = {}
    /\ lastResp = Resp("none", "", TRUE, "")
    /\ listing = [r \in Requests |-> NoListing]
    /\ page = NoPage

NextAbsent ==
    \/ \E p \in Ports : Connect(p)
    \/ \E h \in Handles : ConnectOpened(h)
    \/ \E h \in Handles : ConnectFailed(h)
    \/ \E h \in Handles : ErrorEvent(h)
    \/ \E h \in Handles : SerialData(h)
    \/ \E p \in Ports : Drain(p)
    \/ \E connectionId \in Ports \cup {""}, data \in {"", "M1 on"} :
          Send(connectionId, data)
    \/ \E p \in Ports, error \in WriteErrors : SendWritten(p, error)
    \/ \E p \in Ports : Disconnect(p)
    \/ \E h \in Handles : PortClosed(h)
    \/ \E h \in Handles : DisconnectSettled(h)

SpecAbsent == InitAbsent /\ [][NextAbsent]_vars

\* ------------------------------------------------------- late errors
\* Lines 777-780 for a SerialPort object that Disconnect or Upload has closed:
\* the listener stays on the object and still deletes by the port's key.
LateError(h) == hState[h] \in {"closing", "closed"} /\ ErrorEvent(h)

\* The handlers of Spec, where a SerialPort object emits an error only after
\* it has been closed, and where an open succeeds only on a port that no
\* SerialPort object of the server has open or is closing.
NextLate ==
    \/ \E p \in Ports : Connect(p)
    \/ \E h \in Handles :
          (\A g \in Handles :
              hPort[g] = hPort[h] => hState[g] \notin {"open", "closing"})
            /\ ConnectOpened(h)
    \/ \E h \in Handles : ConnectFailed(h)
    \/ \E h \in Handles : LateError(h)
    \/ \E h \in Handles : SerialData(h)
    \/ \E p \in Ports : Drain(p)
    \/ \E p \in Ports : Send(p, "M1 on")
    \/ \E p \in Ports, error \in WriteErrors : SendWritten(p, error)
    \/ \E p \in Ports : Disconnect(p)
    \/ \E h \in Handles : PortClosed(h)
    \/ \E h \in Handles : DisconnectSettled(h)
    \/ \E u \in Uploads, portName \in Ports \cup {""}, code \in Codes, board \in Boards :
          Upload(u, portName, code, board)
    \/ \E u \in Uploads : UploadReleased(u)
    \/ \E u \in Uploads, outcome \in {"found", "missing", "hang"} :
          UploadFindCLI(u, outcome)
    \/ \E u \in Uploads , outcome \in {"made", "refused"} : UploadMkdir(u, outcome)
    \/ \E u \in Uploads, outcome \in {"written", "refused"} : UploadWriteFile(u, outcome)
    \/ \E u \in Uploads, outcome \in {"ok", "failed", "timeout"} : UploadUpdateIndex(u, outcome)
    \/ \E u \in Uploads, outcome \in {"ok", "failed", "timeout"} : UploadInstall(u, outcome)
    \/ \E u \in Uploads, exit \in {0, 1}, stderr \in {""}, stdout \in {""} :
          UploadCompile(u, exit, stderr, stdout)
    \/ \E u \in Uploads, lines \in Resolving : UploadBoardList(u, "listed", lines, "", "")
    \/ \E u \in Uploads, stderr \in {""}, stdout \in {""} :
          UploadBoardList(u, "failed", <<>>, stderr, stdout)
    \/ \E u \in Uploads : UploadBoardList(u, "hang", <<>>, "", "")
    \/ \E u \in Uploads : UploadSettled(u)
    \/ \E u \in Uploads, exit \in {0, 1}, stderr \in {""}, stdout \in {""} :
          UploadFlash(u, exit, stderr, stdout)
    \/ \E u \in Uploads , outcome \in {"removed", "refused"} : UploadRemoved(u, outcome)
    \/ \E u \in Uploads , outcome \in {"removed", "refused"} : UploadCleaned(u, outcome)

SpecLate == Init /\ [][NextLate]_vars

\* ------------------------------------------------- the buffer of one port
\* A monitoring connection on COM5 that has received lines which nobody has
\* drained yet: none or one, or as many as fill the buffer or all but fill it.
\* The lines that arrived before line 1 carry the numbers below 1, the oldest
\* first.
Backlog(n) == [i \in 1 .. n |-> i - n]

Fills == {0, 1, MaxBuffer - 1, MaxBuffer}

InitBuffer ==
    /\ \E n \in Fills :
          serialDataBuffers = [p \in Ports |-> IF p = "COM5" THEN Backlog(n) ELSE NoBuffer]
    /\ serialConnections = [p \in Ports |-> IF p = "COM5" THEN 1 ELSE NoHandle]
    /\ hState = [h \in Handles |-> IF h = 1 THEN "open" ELSE "unused"]
    /\ hPort = [h \in Handles |-> "COM5"]
    /\ disconnecting = [h \in Handles |-> "no"]
    /\ present = Ports
    /\ writing = [p \in Ports |-> 0]
    /\ nLines = 0
    /\ upload = [u \in Uploads |-> UploadNone]
    /\ clock = 1
    /\ dirs = {}
    /\ lastResp = Resp("connect", "COM5", TRUE, "Connected")
    /\ listing = [r \in Requests |-> NoListing]
    /\ page = NoPage

\* The handlers that write serialDataBuffers, each with all the steps that
\* follow it; no further connect request is made.
NextBuffer ==
    \/ \E h \in Handles : SerialData(h)
    \/ \E p \in Ports : Drain(p)
    \/ \E p \in Ports : Disconnect(p)
    \/ \E h \in Handles : PortClosed(h)
    \/ \E h \in Handles : DisconnectSettled(h)
    \/ \E u \in Uploads, portName \in Ports \cup {""}, code \in Codes, board \in Boards :
          Upload(u, portName, code, board)
    \/ \E u \in Uploads : UploadReleased(u)
    \/ \E u \in Uploads, outcome \in {"found", "missing", "hang"} :
          UploadFindCLI(u, outcome)
    \/ \E u \in Uploads , outcome \in {"made", "refused"} : UploadMkdir(u, outcome)
    \/ \E u \in Uploads, outcome \in {"written", "refused"} : UploadWriteFile(u, outcome)
    \/ \E u \in Uploads, outcome \in {"ok", "failed", "timeout"} : UploadUpdateIndex(u, outcome)
    \/ \E u \in Uploads, outcome \in {"ok", "failed", "timeout"} : UploadInstall(u, outcome)
    \/ \E u \in Uploads, exit \in {0, 1}, stderr \in Stderrs, stdout \in Stdouts :
          UploadCompile(u, exit, stderr, stdout)
    \/ \E u \in Uploads, lines \in Listings : UploadBoardList(u, "listed", lines, "", "")
    \/ \E u \in Uploads, stderr \in Stderrs, stdout \in Stdouts :
          UploadBoardList(u, "failed", <<>>, stderr, stdout)
    \/ \E u \in Uploads : UploadBoardList(u, "hang", <<>>, "", "")
    \/ \E u \in Uploads : UploadSettled(u)
    \/ \E u \in Uploads, exit \in {0, 1}, stderr \in Stderrs, stdout \in Stdouts :
          UploadFlash(u, exit, stderr, stdout)
    \/ \E u \in Uploads , outcome \in {"removed", "refused"} : UploadRemoved(u, outcome)
    \/ \E u \in Uploads , outcome \in {"removed", "refused"} : UploadCleaned(u, outcome)

SpecBuffer == InitBuffer /\ [][NextBuffer]_vars

\* ---------------------------------------------------------- GET /api/ports

\* Lines 361-364: the static table.
eblocksVIDs == {<<"1", "2", "B", "F">>}
eblocksArduinoMegaPIDs == {<<"0", "0", "3", "0">>}
eblocksESP32PIDs == {}
eblocksPICPIDs == {}

\* Lines 357-358 (282-283, 463-464): the identifiers as they are compared.
VendorId_AsIs(portInfo) == Or(portInfo.vendorId, <<>>)

VendorId(portInfo) == toUpperCase(Or(portInfo.vendorId, <<>>))

ProductId(portInfo) == toUpperCase(Or(portInfo.productId, <<>>))

\* Lines 296-304 (337-345, 477-485).
UsbInfo(portInfo) ==
    [vendorId |-> portInfo.vendorId, productId |-> portInfo.productId,
     manufacturer |-> portInfo.manufacturer, product |-> portInfo.product,
     pnpId |-> portInfo.pnpId, serialNumber |-> portInfo.serialNumber,
     friendlyName |-> portInfo.friendlyName]

\* Lines 279-305 and 460-486: one element of portList.map on the paths that do
\* without the toolchain.
FallbackEntry(portInfo) ==
    [port |-> portInfo.path,
     board |-> Or(portInfo.friendlyName, Or(portInfo.manufacturer, Unknown)),
     fqbn |-> IF VendorId(portInfo) \in eblocksVIDs
                 /\ ProductId(portInfo) \in eblocksArduinoMegaPIDs
              THEN Mega ELSE Null,
     usbInfo |-> <<UsbInfo(portInfo)>>]

\* Lines 366-377, Method 1: the table.
Method1(detectedFQBN, portInfo) ==
    IF VendorId(portInfo) \in eblocksVIDs
    THEN IF ProductId(portInfo) \in eblocksArduinoMegaPIDs THEN Mega
         ELSE IF ProductId(portInfo) \in eblocksESP32PIDs THEN Esp32
         ELSE IF ProductId(portInfo) \in eblocksPICPIDs THEN Pic
         ELSE detectedFQBN
    ELSE detectedFQBN

\* Lines 380-390, Method 2: a serial number starting with EB is logged only.
Method2_DefaultsToMega(detectedFQBN, portInfo) ==
    IF Or(detectedFQBN, <<>>) = <<>>
       /\ startsWith(toUpperCase(Or(portInfo.serialNumber, <<>>)), <<"E", "B">>)
    THEN Mega ELSE detectedFQBN

Method2(detectedFQBN, portInfo) == detectedFQBN

\* Lines 394-412, Method 3: keywords in the names.
Method3(detectedFQBN, portInfo) ==
    LET combined ==
            toLowerCase(Or(portInfo.friendlyName, <<>>)) \o <<" ">>
              \o toLowerCase(Or(portInfo.product, <<>>)) \o <<" ">>
              \o toLowerCase(Or(portInfo.manufacturer, <<>>)) \o <<" ">>
              \o toLowerCase(Or(portInfo.pnpId, <<>>))
    IN IF Or(detectedFQBN, <<>>) # <<>> THEN detectedFQBN
       ELSE IF includes(combined, <<"e", "b", "l", "o", "c", "k", "s">>)
               \/ includes(combined, <<"e", "b", "l", "o", "c", "k", "s", "3">>)
       THEN IF includes(combined, <<"m", "e", "g", "a">>)
               \/ includes(combined, <<"a", "r", "d">>) THEN Mega
            ELSE IF includes(combined, <<"e", "s", "p", "3", "2">>) THEN Esp32
            ELSE IF includes(combined, <<"p", "i", "c">>) THEN Pic
            ELSE detectedFQBN
       ELSE detectedFQBN

\* Lines 416-419, Method 4: the known pair once more.
Method4(detectedFQBN, portInfo) ==
    IF Or(detectedFQBN, <<>>) = <<>>
       /\ VendorId(portInfo) = <<"1", "2", "B", "F">>
       /\ ProductId(portInfo) = <<"0", "0", "3", "0">>
    THEN Mega ELSE detectedFQBN

\* Lines 425-438: board details is asked only when nothing is detected yet; a
\* throw and an output without an FQBN leave the value as it is.
BoardDetails(detectedFQBN, details) ==
    IF Or(detectedFQBN, <<>>) = <<>> /\ ~details.threw /\ details.fqbn # Null
    THEN details.fqbn ELSE detectedFQBN

\* Lines 325-423: what the loop knows of one line of board list that has at
\* least two parts once SerialPort.list() has settled: the descriptor of the
\* port, if there is one, and the FQBN after the four methods. portList is what
\* SerialPort.list() gives, listThrows whether it throws instead.
PortInfo(line, portList, listThrows) ==
    IF listThrows THEN <<>>
    ELSE Find(portList, {i \in 1 .. Len(portList) : portList[i].path = line.parts[1]})

Detected(line, portList, listThrows) ==
    LET parts == line.parts
        found == Find(parts, {i \in 1 .. Len(parts) : includes(parts[i], <<":">>)})
        fqbn == IF found # <<>> THEN found[1] ELSE Null
        portInfo == PortInfo(line, portList, listThrows)
    IN IF portInfo = <<>> THEN fqbn
       ELSE Method4(Method3(Method2(Method1(fqbn, portInfo[1]), portInfo[1]),
                            portInfo[1]), portInfo[1])

\* Lines 325-327 and 441-446: the entry pushed for the line. usbInfo is null
\* (no element) or the object (one element).
CliEntry(line, portList, listThrows, detectedFQBN) ==
    LET portInfo == PortInfo(line, portList, listThrows)
    IN [port |-> line.parts[1],
        board |-> Or(join(Tail(line.parts)), Unknown),
        fqbn |-> detectedFQBN,
        usbInfo |-> IF portInfo = <<>> THEN <<>> ELSE <<UsbInfo(portInfo[1])>>]

\* Lines 321-324: the next line from the given one on that the loop does not
\* skip (a blank line and a line of one part are skipped), or 0.
NextEntry(lines, from) ==
    LET rows == {i \in from .. Len(lines) : Len(lines[i].parts) >= 2}
    IN IF rows = {} THEN 0 ELSE CHOOSE i \in rows : \A j \in rows : i <= j

\* ---- the inputs of one request
MaxListed == 1       \* descriptors SerialPort.list() gives, lines board list prints


TableVendorIds == {<<"1", "2", "b", "f">>, <<"1", "2", "B", "F">>, <<"1", "2", "B", "f">>}
VendorIds == {Undefined, <<>>, <<"2", "3", "4", "1">>} \cup TableVendorIds
TableProductIds == {<<"0", "0", "3", "0">>}
ProductIds == {Undefined, <<>>, <<"0", "0", "4", "3">>} \cup TableProductIds
PlainNames == {Undefined, <<>>, <<"U", "S", "B">>}
FriendlyNames == PlainNames \cup {<<"E", "B", "l", "o", "c", "k", "s", " ", "M", "e", "g", "a">>, <<"e", "b", "l", "o", "c", "k", "s", "3", " ", "e", "s", "p", "3", "2">>}

PortInfos ==
    [path : {COM5, COM6}, vendorId : VendorIds, productId : ProductIds,
     manufacturer : {Undefined, <<"E", "b", "l", "o", "c", "k", "s">>},
     product : {Undefined, <<"p", "i", "c">>},
     pnpId : {Undefined, <<>>},
     serialNumber : {<<>>, <<"e", "b", "1">>},
     friendlyName : FriendlyNames]

\* SerialPort.list() names every path once.
Listed ==
    {l \in UNION {[1 .. n -> PortInfos] : n \in 0 .. MaxListed} :
        \A i \in 1 .. Len(l), j \in 1 .. Len(l) : i # j => l[i].path # l[j].path}

\* What board details prints for a port: it throws, prints no FQBN, or one.
Details ==
    {[threw |-> TRUE, fqbn |-> Null], [threw |-> FALSE, fqbn |-> Null],
     [threw |-> FALSE, fqbn |-> Esp32]}

\* The lines of board list below its header, split at white space: a blank
\* line has no part; the parts after the port name may hold an FQBN.
Uno == <<"a", "r", "d", "u", "i", "n", "o", ":", "a", "v", "r", ":", "u", "n", "o">>
Serial == <<"s", "e", "r", "i", "a", "l">>

BoardListLines ==
    {[parts |-> <<portName>> \o rest, details |-> details] :
        portName \in {COM5, COM6}, rest \in {<<>>, <<Serial>>, <<Serial, Uno>>},
        details \in Details}
      \cup {[parts |-> <<>>, details |-> [threw |-> TRUE, fqbn |-> Null]]}

BoardLists == UNION {[1 .. n -> BoardListLines] : n \in 0 .. MaxListed}

\* Lines 321-337 and 451: the loop goes on with the next line, for which
\* SerialPort.list() is called and awaited, or ends, and the handler answers.
PortsLoop(r, ports, from) ==
    LET i == NextEntry(listing[r].lines, from) IN
    IF i = 0
    THEN /\ listing' = [listing EXCEPT ![r].pc = "done", ![r].ports = ports]
         /\ lastResp' = [Resp("ports", "", TRUE, "") EXCEPT !.data = ports]
    ELSE /\ listing' = [listing EXCEPT ![r].pc = "list", ![r].i = i, ![r].ports = ports]
         /\ UNCHANGED lastResp

\* Lines 269-271: the request arrives and findArduinoCLI() is awaited.
ApiPorts(r) ==
    /\ listing[r].pc = "idle"
    /\ listing' = [listing EXCEPT ![r].pc = "findcli"]
    /\ UNCHANGED <<page, serialConnections, serialDataBuffers, hState, hPort,
                   disconnecting, present, writing, nLines, upload, clock, dirs, lastResp>>

\* Lines 271-318 and 452-458: findArduinoCLI() returns a path and board list is
\* started, or it throws (it never returns a falsy value, so lines 273-314 are
\* not reached) into the catch, which calls SerialPort.list().
PortsFindCLI(r) ==
    /\ listing[r].pc = "findcli"
    /\ listing' = IF listing[r].cli = "missing"
                  THEN [listing EXCEPT ![r].pc = "fallback", ![r].error = CliNotFound]
                  ELSE [listing EXCEPT ![r].pc = "board_list"]
    /\ UNCHANGED <<page, serialConnections, serialDataBuffers, hState, hPort,
                   disconnecting, present, writing, nLines, upload, clock, dirs, lastResp>>

\* Lines 318-337 and 452-458: board list ends within its 10 s and the loop
\* over its lines starts, or it throws into the catch.
PortsBoardList(r) ==
    /\ listing[r].pc = "board_list"
    /\ IF listing[r].cli = "found"
       THEN PortsLoop(r, <<>>, 1)
       ELSE /\ listing' = [listing EXCEPT ![r].pc = "fallback",
                                          ![r].error = "Command failed: board list"]
            /\ UNCHANGED lastResp
    /\ UNCHANGED <<page, serialConnections, serialDataBuffers, hState, hPort,
                   disconnecting, present, writing, nLines, upload, clock, dirs>>

\* Lines 337-427: SerialPort.list() has settled for the line the loop is at. An
\* FQBN that is still missing has board details asked for; otherwise the
\* entry is pushed and the loop goes on.
PortsListed(r) ==
    /\ listing[r].pc = "list"
    /\ LET line == listing[r].lines[listing[r].i]
           detectedFQBN == Detected(line, listing[r].portList, listing[r].listThrows)
       IN IF Or(detectedFQBN, <<>>) = <<>>
          THEN /\ listing' = [listing EXCEPT ![r].pc = "details",
                                             ![r].detected = detectedFQBN]
               /\ UNCHANGED lastResp
          ELSE PortsLoop(r, Append(listing[r].ports,
                                CliEntry(line, listing[r].portList, listing[r].listThrows,
                                         detectedFQBN)),
                         listing[r].i + 1)
    /\ UNCHANGED <<page, serialConnections, serialDataBuffers, hState, hPort,
                   disconnecting, present, writing, nLines, upload, clock, dirs>>

\* Lines 427-451: board details has ended within its 5 s or thrown; the entry
\* is pushed and the loop goes on.
PortsDetails(r) ==
    /\ listing[r].pc = "details"
    /\ LET line == listing[r].lines[listing[r].i] IN
       PortsLoop(r, Append(listing[r].ports,
                        CliEntry(line, listing[r].portList, listing[r].listThrows,
                                 BoardDetails(listing[r].detected, line.details))),
                 listing[r].i + 1)
    /\ UNCHANGED <<page, serialConnections, serialDataBuffers, hState, hPort,
                   disconnecting, present, writing, nLines, upload, clock, dirs>>

\* Lines 458-497: the SerialPort.list() of the catch has settled: the handler
\* answers with the list made without the toolchain, or, when it threw, 500
\* with the message of the error the catch caught first (line 494).
PortsFallback(r) ==
    /\ listing[r].pc = "fallback"
    /\ LET ports == [i \in 1 .. Len(listing[r].portList) |->
                       FallbackEntry(listing[r].portList[i])]
       IN IF listing[r].listThrows
          THEN /\ listing' = [listing EXCEPT ![r].pc = "done", ![r].success = FALSE]
               /\ lastResp' = Resp("ports", "", FALSE,
                                   IF Falsy(listing[r].error)
                                   THEN "Failed to get serial ports"
                                   ELSE listing[r].error)
          ELSE /\ listing' = [listing EXCEPT ![r].pc = "done", ![r].ports = ports]
               /\ lastResp' = [Resp("ports", "", TRUE, "") EXCEPT !.data = ports]
    /\ UNCHANGED <<page, serialConnections, serialDataBuffers, hState, hPort,
                   disconnecting, present, writing, nLines, upload, clock, dirs>>

InitPorts ==
    /\ serialConnections = [p \in Ports |-> NoHandle]
    /\ serialDataBuffers = [p \in Ports |-> NoBuffer]
    /\ hState = [h \in Handles |-> "unused"]
    /\ hPort = [h \in Handles |-> "COM5"]
    /\ disconnecting = [h \in Handles |-> "no"]
    /\ present = Ports
    /\ writing = [p \in Ports |-> 0]
    /\ nLines = 0
    /\ upload = [u \in Uploads |-> UploadNone]
    /\ clock = 1
    /\ dirs = {}
    /\ lastResp = Resp("none", "", TRUE, "")
    /\ \E cli \in {"found", "missing", "failed"}, portList \in Listed,
          listThrows \in BOOLEAN, lines \in BoardLists :
          /\ cli # "found" => lines = <<>>
          /\ listThrows => portList = <<>>
          /\ listing = [r \in Requests |->
                           IF r = 1
                           THEN [NoListing EXCEPT !.cli = cli, !.lines = lines,
                                                  !.portList = portList,
                                                  !.listThrows = listThrows]
                           ELSE NoListing]
    /\ page = NoPage

NextPorts ==
    \/ ApiPorts(1)
    \/ \E r \in Requests : PortsFindCLI(r)
    \/ \E r \in Requests : PortsBoardList(r)
    \/ \E r \in Requests : PortsListed(r)
    \/ \E r \in Requests : PortsDetails(r)
    \/ \E r \in Requests : PortsFallback(r)

SpecPorts == InitPorts /\ [][NextPorts]_vars

\* ------------------------------------------------------- the page alone
\* One user at the page, and nobody else calling the server. The user of
\* SpecPage lets the page load, picks ports and board types, and uploads,
\* while the page polls the port it shows as connected: a port is picked once
\* the page has handled the answer to the pick before, with MaxUploads
\* requests made no further click uploads, the user sends no text and does
\* not refresh the list, and no device fails or sends a line.
\* What the port lists of the page find: the toolchain lists COM5 as a Mega and COM6 without
\* a board, of which board details knows nothing either; board list fails and
\* SerialPort.list() gives COM6 alone, with the identifiers of the table; no
\* toolchain, and SerialPort.list() throws.
Plain(path) ==
    [path |-> path, vendorId |-> Undefined, productId |-> Undefined,
     manufacturer |-> Undefined, product |-> Undefined, pnpId |-> Undefined,
     serialNumber |-> <<>>, friendlyName |-> <<"U", "S", "B">>]

PageListings ==
    {[cli |-> "found", listThrows |-> FALSE, portList |-> <<Plain(COM5), Plain(COM6)>>,
      lines |-> <<[parts |-> <<COM5, Serial, Mega>>,
                   details |-> [threw |-> FALSE, fqbn |-> Null]],
                  [parts |-> <<COM6, Serial>>,
                   details |-> [threw |-> FALSE, fqbn |-> Null]]>>],
     [cli |-> "failed", listThrows |-> FALSE, lines |-> <<>>,
      portList |-> <<[Plain(COM6) EXCEPT !.vendorId = <<"1", "2", "b", "f">>,
                                         !.productId = <<"0", "0", "3", "0">>]>>],
     [cli |-> "missing", listThrows |-> TRUE, lines |-> <<>>, portList |-> <<>>]}

\* preload.js lines 319-327: refreshPorts, called when the page has loaded, by
\* the refresh button and by the timer of a driver installation (lines
\* 277-279), whether or not an earlier call has its answer: the button is
\* disabled and /api/ports is called.
RefreshPorts ==
    /\ page.refreshing < MaxRefreshes
    /\ page' = [page EXCEPT !.refreshing = @ + 1]
    /\ UNCHANGED <<serialConnections, serialDataBuffers, hState, hPort,
                   disconnecting, present, writing, listing, nLines, upload, clock, dirs,
                   lastResp>>

\* A /api/ports request of the page that is on its way reaches the server,
\* whatever the handlers of earlier requests are at: main.mjs lines 269-271 run
\* for it; found is what the request will find. The request is followed as r,
\* the first number no request is followed as.
PortsRequested(r, found) ==
    /\ page.refreshing > Cardinality({q \in Requests : listing[q].pc # "idle"})
    /\ listing[r].pc = "idle"
    /\ \A q \in Requests : q < r => listing[q].pc # "idle"
    /\ listing' = [listing EXCEPT ![r] =
                      [NoListing EXCEPT !.pc = "findcli",
                                        !.cli = found.cli, !.lines = found.lines,
                                        !.portList = found.portList,
                                        !.listThrows = found.listThrows]]
    /\ UNCHANGED <<page, serialConnections, serialDataBuffers, hState, hPort,
                   disconnecting, present, writing, nLines, upload, clock, dirs, lastResp>>

\* preload.js lines 328-349: the answer of request r is there. The options of
\* com-port-select are replaced by the placeholder, which the select then
\* shows, and, for a success that lists any, an option for each port listed,
\* whose FQBN is stored; the button is enabled. isConnected, selectedPort and
\* the polling stay as they are. After the forEach of lines 332-342 every
\* port of the answer has the FQBN of its last entry in portInfoMap.
PortsRefreshed(r) ==
    /\ listing[r].pc = "done"
    /\ LET listed == listing[r].success /\ Len(listing[r].ports) > 0
           Refreshed(portInfoMap, ports) ==
               [p \in Ports |->
                   LET entries == {i \in 1 .. Len(ports) : PortName(ports[i].port) = p}
                   IN IF entries = {} THEN portInfoMap[p]
                      ELSE ports[CHOOSE i \in entries : \A j \in entries : j <= i].fqbn]
       IN
       page' = [page EXCEPT
                  !.portSelect = "",
                  !.options = IF listed
                              THEN {PortName(listing[r].ports[i].port) :
                                        i \in 1 .. Len(listing[r].ports)}
                              ELSE {},
                  !.portInfoMap = IF listed THEN Refreshed(@, listing[r].ports) ELSE @,
                  !.refreshing = @ - 1]
    /\ listing' = [listing EXCEPT ![r] = NoListing]
    /\ UNCHANGED <<serialConnections, serialDataBuffers, hState, hPort,
                   disconnecting, present, writing, nLines, upload, clock, dirs, lastResp>>

\* The page as initializeApp leaves it (preload.js lines 3227-3232): the
\* refreshPorts of the load awaits its answer.
InitPage ==
    /\ serialConnections = [p \in Ports |-> NoHandle]
    /\ serialDataBuffers = [p \in Ports |-> NoBuffer]
    /\ hState = [h \in Handles |-> "unused"]
    /\ hPort = [h \in Handles |-> "COM5"]
    /\ disconnecting = [h \in Handles |-> "no"]
    /\ present = Ports
    /\ writing = [p \in Ports |-> 0]
    /\ nLines = 0
    /\ upload = [u \in Uploads |-> UploadNone]
    /\ clock = 1
    /\ dirs = {}
    /\ lastResp = Resp("none", "", TRUE, "")
    /\ listing = [r \in Requests |-> NoListing]
    /\ page = [NoPage EXCEPT !.refreshing = 1]

NextPage ==
    \/ \E r \in Requests, found \in PageListings : PortsRequested(r, found)
    \/ \E r \in Requests : PortsFindCLI(r)
    \/ \E r \in Requests : PortsBoardList(r)
    \/ \E r \in Requests : PortsListed(r)
    \/ \E r \in Requests : PortsDetails(r)
    \/ \E r \in Requests : PortsFallback(r)
    \/ \E r \in Requests : PortsRefreshed(r)
    \/ \E portPath \in Ports \cup {""} :
          (Falsy(portPath) \/ page.calls = <<>>) /\ SelectPort(portPath)
    \/ \E i \in 1 .. MaxCalls : PageConnect(i)
    \/ \E h \in Handles : ConnectOpened(h)
    \/ \E h \in Handles : ConnectFailed(h)
    \/ \E i \in 1 .. MaxCalls : AutoConnected(i)
    \/ \E boardType \in BoardTypes : SelectBoard(boardType)
    \/ PollTick
    \/ \E p \in Ports : PollServed(p)
    \/ \E u \in Uploads : ClickUpload(u)
    \/ \E u \in Uploads : UploadSent(u)
    \/ \E u \in Uploads : UploadTimeout(u)
    \/ \E h \in Handles : PortClosed(h)
    \/ \E u \in Uploads : UploadReleased(u)
    \/ \E u \in Uploads, outcome \in {"found", "missing", "hang"} :
          UploadFindCLI(u, outcome)
    \/ \E u \in Uploads, outcome \in {"made", "refused"} : UploadMkdir(u, outcome)
    \/ \E u \in Uploads, outcome \in {"written", "refused"} : UploadWriteFile(u, outcome)
    \/ \E u \in Uploads, outcome \in {"ok", "failed", "timeout"} : UploadUpdateIndex(u, outcome)
    \/ \E u \in Uploads, outcome \in {"ok", "failed", "timeout"} : UploadInstall(u, outcome)
    \/ \E u \in Uploads, exit \in {0, 1}, stderr \in Stderrs, stdout \in Stdouts :
          UploadCompile(u, exit, stderr, stdout)
    \/ \E u \in Uploads : UploadSettled(u)
    \/ \E u \in Uploads, exit \in {0, 1}, stderr \in Stderrs, stdout \in Stdouts :
          UploadFlash(u, exit, stderr, stdout)
    \/ \E u \in Uploads, outcome \in {"removed", "refused"} : UploadRemoved(u, outcome)
    \/ \E u \in Uploads, outcome \in {"removed", "refused"} : UploadCleaned(u, outcome)
    \/ \E u \in Uploads : UploadCode(u)

SpecPage == InitPage /\ [][NextPage]_vars

\* The monitor alone: the user picks ports, whether or not an earlier pick
\* has its answer, and sends text, the devices send lines and fail, the page
\* polls. The user uploads nothing and does not refresh the list.
NextMonitor ==
    \/ \E r \in Requests, found \in PageListings : PortsRequested(r, found)
    \/ \E r \in Requests : PortsFindCLI(r)
    \/ \E r \in Requests : PortsBoardList(r)
    \/ \E r \in Requests : PortsListed(r)
    \/ \E r \in Requests : PortsDetails(r)
    \/ \E r \in Requests : PortsFallback(r)
    \/ \E r \in Requests : PortsRefreshed(r)
    \/ \E portPath \in Ports \cup {""} : SelectPort(portPath)
    \/ \E i \in 1 .. MaxCalls : PageConnect(i)
    \/ \E h \in Handles : ConnectOpened(h)
    \/ \E h \in Handles : ConnectFailed(h)
    \/ \E i \in 1 .. MaxCalls : AutoConnected(i)
    \/ \E h \in Handles : ErrorEvent(h)
    \/ \E h \in Handles : SerialData(h)
    \/ PollTick
    \/ \E p \in Ports : PollServed(p)
    \/ SendSerialData
    \/ \E p \in Ports : SendServed(p)
    \/ \E p \in Ports, error \in WriteErrors : SendWritten(p, error)

SpecMonitor == InitPage /\ [][NextMonitor]_vars

\* Port selections alone: the user refreshes the port list and picks ports,
\* whether or not an earlier pick has its answer, and the page polls the port
\* it shows as connected. No device fails or sends a line.
NextSelect ==
    \/ RefreshPorts
    \/ \E r \in Requests, found \in PageListings : PortsRequested(r, found)
    \/ \E r \in Requests : PortsFindCLI(r)
    \/ \E r \in Requests : PortsBoardList(r)
    \/ \E r \in Requests : PortsListed(r)
    \/ \E r \in Requests : PortsDetails(r)
    \/ \E r \in Requests : PortsFallback(r)
    \/ \E r \in Requests : PortsRefreshed(r)
    \/ \E portPath \in Ports \cup {""} : SelectPort(portPath)
    \/ \E i \in 1 .. MaxCalls : PageConnect(i)
    \/ \E h \in Handles : ConnectOpened(h)
    \/ \E h \in Handles : ConnectFailed(h)
    \/ \E i \in 1 .. MaxCalls : AutoConnected(i)
    \/ PollTick
    \/ \E p \in Ports : PollServed(p)

SpecSelect == InitPage /\ [][NextSelect]_vars

\* ------------------------------------------------------------ properties
HandlesOn(port, states) == {h \in Handles : hPort[h] = port /\ hState[h] \in states}

Answered(op, port) ==
    lastResp' # lastResp /\ lastResp'.op = op /\ lastResp'.port = port

\* C1: while the flash subprocess of an upload runs on its resolved port, this
\* process has no handle on that port that is open or being opened.
C1_NoHandleWhileFlashing ==
    \A u \in Uploads :
        upload[u].pc = "flash" =>
            HandlesOn(upload[u].finalUploadPort, {"opening", "open"}) = {}

\* C2: at most one handle this process has opened on a port and not yet closed
\* exists at any time, also when two connect requests on the port overlap.
C2_OneHandlePerPort ==
    \A p \in Ports : Cardinality(HandlesOn(p, {"open", "closing"})) <= 1

\* C3: a port has a record exactly when this process holds an OS handle on it
\* that is not yet closed.
C3_RecordIffHandleOpen ==
    \A p \in Ports :
        serialConnections[p] # NoHandle <=> HandlesOn(p, {"open", "closing"}) # {}

\* C4: while a port has a record (left by an earlier successful connect), no
\* step constructs a handle for it, and every answer to a connect request on
\* it that is not given by the open callback of a handle (whose request came
\* when the port had no record) is the success "Already connected" for the
\* same connection id, with the registry, every handle and every buffer left
\* as they were.
C4_SecondConnectIsNoOp ==
    [][\A p \in Ports :
          serialConnections[p] # NoHandle =>
            /\ \A h \in Handles :
                  hState[h] = "unused" /\ hState'[h] = "opening" => hPort'[h] # p
            /\ (/\ Answered("connect", p)
                /\ \A h \in Handles :
                      hPort[h] = p /\ hState[h] = "opening" => hState'[h] = "opening")
                 => /\ lastResp' = Resp("connect", p, TRUE, "Already connected")
                    /\ UNCHANGED <<serialConnections, serialDataBuffers, hState, hPort>>
      ]_vars

C4_Witness ==
    \E p \in Ports :
        /\ lastResp = Resp("connect", p, TRUE, "Already connected")
        /\ isOpen(serialConnections[p])
        /\ serialDataBuffers[p] # <<>>

\* C5: while the success of a disconnect of a port is the latest answer, so
\* that a connect issued next finds the port as the disconnect left it, no
\* handle this process opened on the port is still open.
C5_DisconnectedMeansNotOpen ==
    \A p \in Ports :
        (lastResp.op = "disconnect" /\ lastResp.port = p /\ lastResp.ok)
           => HandlesOn(p, {"open"}) = {}

\* C6: no disconnect answers success while a handle of this process on that
\* port is still being closed.
C6_DisconnectAnswersAfterRelease ==
    [][\A p \in Ports :
          Answered("disconnect", p) /\ lastResp'.ok =>
              \A h \in Handles : hPort[h] = p => hState'[h] # "closing"
      ]_vars

\* C7: when an upload that named a sketch directory answers, on whatever path,
\* the directory does not exist.
C7_NoSketchDirAtReturn ==
    [][\A u \in Uploads :
          upload[u].pc # "done" /\ upload'[u].pc = "done"
            /\ upload'[u].sketchDir # NoDir =>
              upload'[u].sketchDir \notin dirs'
      ]_vars

\* C8: an upload to a port that had a monitoring connection removes that
\* connection's record at once, has the close of its handle confirmed before
\* the toolchain is looked up and the compile starts, flashes only after a
\* compile that exited zero, and, when both exited zero, removes the sketch
\* directory and answers success with that port.
AfterRelease ==
    {"findcli", "mkdir", "write_file", "update_index", "install", "compile",
     "board_list", "settle", "flash", "remove", "cleanup", "hung", "done"}

C8_PreemptThenCompileThenFlash ==
    \A u \in Uploads :
        LET up == upload[u] IN
        up.connection # NoHandle =>
            /\ serialConnections[up.uploadPort] # up.connection
            /\ up.pc \in AfterRelease => hState[up.connection] = "closed"
            /\ up.flashed # "none" => up.compiled = "ok"
            /\ up.compiled = "ok" /\ up.flashed = "ok" =>
                  /\ up.pc \in {"remove", "done"}
                  /\ up.pc = "done" =>
                        up.res = [status |-> 200, port |-> up.uploadPort, error |-> ""]

\* C9: an upload whose compile exited non-zero only calls rm on its sketch
\* directory and then answers 500, with the compiler's stderr as the error text
\* whenever the compiler wrote any; its flash subprocess is never started.
C9_CompileFailureStopsUpload ==
    /\ [](\A u \in Uploads :
             upload[u].compiled = "failed" =>
                 /\ upload[u].pc \in {"cleanup", "done"}
                 /\ upload[u].flashed = "none"
                 /\ upload[u].pc = "done" => upload[u].res.status = 500)
    /\ [][\A u \in Uploads, stderr \in Stderrs \ {""} :
             (/\ upload[u].compiled = "failed"
              /\ upload[u].caught.stderr = stderr
              /\ upload'[u] # upload[u])
               => upload'[u].res.error = stderr
         ]_vars

C9_Witness ==
    \E u \in Uploads :
        /\ upload[u].compiled = "failed"
        /\ upload[u].pc = "done"
        /\ upload[u].sketchDir \in dirs
        /\ upload[u].res.error = "stderr text"

\* C10: a connect whose open the OS refuses answers a failure and leaves the
\* registry and every buffer as they were; a port the OS never opens never
\* gets a handle opened or a record.
C10_RefusedOpenChangesNothing ==
    /\ [][\A h \in Handles :
             hState[h] = "opening" /\ hState'[h] = "failed" =>
                 /\ lastResp' = Resp("connect", hPort[h], FALSE, "Failed to connect")
                 /\ UNCHANGED <<serialConnections, serialDataBuffers>>
         ]_vars
    /\ [](\A h \in Handles :
             hState[h] # "unused" /\ hPort[h] \notin present =>
                 /\ hState[h] \in {"opening", "failed"}
                 /\ serialConnections[hPort[h]] = NoHandle)

C10_Witness ==
    \E g \in Handles :
        /\ hState[g] = "failed"
        /\ lastResp = Resp("connect", hPort[g], FALSE, "Failed to connect")
        /\ serialConnections[hPort[g]] = NoHandle
        /\ serialDataBuffers[hPort[g]] # <<>>

\* C11: a drain answers with the whole content of the port's buffer in arrival
\* order and leaves the buffer empty, so that a drain that follows with no line
\* in between answers with the empty sequence; no line is in two places or
\* twice in one place, and a line that was returned is older than every line
\* still buffered for that port.
Increasing(lines) == \A i \in 1 .. Len(lines) - 1 : lines[i] < lines[i + 1]

C11_DrainReturnsOnceInOrder ==
    /\ [][\A p \in Ports :
             lastResp'.op = "drain" /\ lastResp'.port = p /\ lastResp' # lastResp =>
                 /\ lastResp'.data = serialDataBuffers[p]
                 /\ serialDataBuffers'[p] = <<>>
         ]_vars
    /\ [](\A p \in Ports :
             /\ Increasing(serialDataBuffers[p])
             /\ lastResp.op = "drain" /\ lastResp.port = p =>
                   /\ Increasing(lastResp.data)
                   /\ lastResp.data # <<>> /\ serialDataBuffers[p] # <<>> =>
                         lastResp.data[Len(lastResp.data)] < serialDataBuffers[p][1])

C11_Witness ==
    \E p \in Ports :
        /\ lastResp.op = "drain" /\ lastResp.port = p
        /\ Len(lastResp.data) >= 2
        /\ serialDataBuffers[p] = <<nLines>>

\* C12: no buffer ever holds more than MaxBuffer lines, and a line that arrives
\* leaves in the buffer the newest MaxBuffer lines of what was buffered and
\* itself, in arrival order (the oldest line goes when the buffer was full).
Newest(lines, n) ==
    SubSeq(lines, Len(lines) - (IF Len(lines) < n THEN Len(lines) ELSE n) + 1, Len(lines))

C12_BufferKeepsNewest ==
    /\ [](\A p \in Ports : Len(serialDataBuffers[p]) <= MaxBuffer)
    /\ [][\A p \in Ports :
             nLines' = nLines + 1 /\ serialDataBuffers'[p] # serialDataBuffers[p] =>
                 serialDataBuffers'[p] =
                     Newest(Append(serialDataBuffers[p], nLines'), MaxBuffer)
         ]_vars

C12_Witness ==
    \E p \in Ports :
        /\ nLines >= 1
        /\ Len(serialDataBuffers[p]) = MaxBuffer
        /\ serialDataBuffers[p][MaxBuffer] = nLines
        /\ serialDataBuffers[p][1] = nLines - MaxBuffer + 1

\* C13: whenever a handler closes the open connection of a port (the disconnect
\* and both pre-emption points of the upload do), the port's buffer is empty
\* once the handler has called close().
C13_CloseLosesBuffer ==
    [][\A h \in Handles :
          hState[h] = "open" /\ hState'[h] = "closing" =>
              serialDataBuffers'[hPort[h]] = <<>>
      ]_vars

\* C14: an upload that fails because the toolchain cannot be found has not
\* touched the port it was asked for: it took no monitoring connection off the
\* registry and closed no handle.
C14_ToolchainBeforePort ==
    \A u \in Uploads :
        upload[u].res.error = CliNotFound =>
            upload[u].connection = NoHandle

\* C15: the flash subprocess is started only on a port that names a device:
\* an "auto" upload whose board list has no usable line answers without
\* starting it.
C15_NoFlashWithoutPort ==
    \A u \in Uploads :
        upload[u].flashed # "none" => upload[u].finalUploadPort \in Ports

\* C16: no upload is left waiting for a subprocess that never terminates: every
\* subprocess it starts is cut off by a timeout, after which the handler goes on
\* to an answer.
C16_NoUploadWaitsForever ==
    \A u \in Uploads : upload[u].pc # "hung"

\* C17: once the page has handled the success of an upload that took a
\* monitoring connection off the port it returns, the last step taken on the
\* upload's behalf, the returned port has a record again.
C17_PortHandedBack ==
    \A u \in Uploads :
        LET up == upload[u] IN
        (/\ up.shown \in Ports
         /\ \/ up.connection # NoHandle /\ up.uploadPort = up.shown
            \/ up.conn # NoHandle)
          => serialConnections[up.shown] # NoHandle

\* C18: the answer of an upload whose flash failed differs from every answer a
\* failed compile can give, also when the two subprocesses wrote the same text.
CompileFailureAnswers ==
    {Caught(UploadNone, ExecError("Command failed: compile", stderr, stdout)).res :
        stderr \in Stderrs, stdout \in Stdouts}

C18_FailureClassInAnswer ==
    \A u \in Uploads :
        upload[u].flashed = "failed" => upload[u].res \notin CompileFailureAnswers

\* C19: every entry of a port list whose descriptor carries a vendor id that
\* is 12BF in any case and the product id 0030 has the family Arduino Mega,
\* whatever its serial number and names are, whatever family board list or
\* board details report, and whether or not the toolchain could be used.
DescriptorsOf(entry) ==
    IF listing[1].listThrows THEN {}
    ELSE {listing[1].portList[i] : i \in {j \in 1 .. Len(listing[1].portList) :
                                          listing[1].portList[j].path = entry.port}}

InTable(portInfo) ==
    portInfo.vendorId \in TableVendorIds /\ portInfo.productId \in TableProductIds

C19_TableMatchWins ==
    listing[1].pc = "done" /\ lastResp.ok =>
        \A i \in 1 .. Len(lastResp.data) :
            \A portInfo \in DescriptorsOf(lastResp.data[i]) :
                InTable(portInfo) => lastResp.data[i].fqbn = Mega

C19_Witness ==
    /\ listing[1].pc = "done" /\ listing[1].cli = "found" /\ lastResp.data # <<>>
    /\ lastResp.data[1].fqbn = Mega
    /\ lastResp.data[1].board = join(<<Serial, Uno>>)
    /\ lastResp.data[1].usbInfo # <<>>
    /\ lastResp.data[1].usbInfo[1].vendorId = <<"1", "2", "b", "f">>
    /\ lastResp.data[1].usbInfo[1].friendlyName = <<"e", "b", "l", "o", "c", "k", "s", "3", " ", "e", "s", "p", "3", "2">>

\* C20: a port list is answered with success whenever SerialPort.list() gives
\* descriptors, whatever fields they lack, and an entry has the family null
\* when its descriptor is not in the table and its names hold no keyword, or
\* it has no descriptor, and neither board list nor board details reports a
\* family for it.
NoKeyword(portInfo) ==
    /\ portInfo.friendlyName \in PlainNames
    /\ ~(portInfo.manufacturer \notin PlainNames /\ portInfo.product \notin PlainNames)

ToolchainSilent(entry) ==
    \A i \in 1 .. Len(listing[1].lines) :
        LET line == listing[1].lines[i] IN
        Len(line.parts) >= 2 /\ line.parts[1] = entry.port =>
            /\ Uno \notin {line.parts[k] : k \in 1 .. Len(line.parts)}
            /\ line.details.fqbn = Null

C20_NoMatchIsNull ==
    listing[1].pc = "done" =>
        /\ lastResp.op = "ports"
        /\ ~listing[1].listThrows => lastResp.ok
        /\ \A i \in 1 .. Len(lastResp.data) :
              LET entry == lastResp.data[i] IN
              (/\ ToolchainSilent(entry)
               /\ \A portInfo \in DescriptorsOf(entry) :
                     ~InTable(portInfo) /\ NoKeyword(portInfo))
                => entry.fqbn = Null

C20_Witness ==
    /\ listing[1].pc = "done" /\ listing[1].cli = "found" /\ lastResp.data # <<>>
    /\ lastResp.data[1].fqbn = Null
    /\ lastResp.data[1].usbInfo =
         <<[vendorId |-> Undefined, productId |-> <<>>, manufacturer |-> Undefined,
            product |-> Undefined, pnpId |-> <<>>, serialNumber |-> <<>>,
            friendlyName |-> <<>>]>>

\* C21: whenever the page is connected to a port for which the port list gave
\* no FQBN (the detected family is null) and the user selects a compilable
\* board type, Arduino Mega or ESP32, the page shows the port as connected and
\* the upload button is enabled.
C21_OverrideAllowsUpload ==
    [][\A boardType \in {Mega, Esp32} :
          (/\ page.isConnected
           /\ page.selectedPort # NoPort
           /\ serialConnections[page.selectedPort] # NoHandle
           /\ page.portInfoMap[page.selectedPort] = Null
           /\ page.boardSelect # boardType
           /\ page'.boardSelect = boardType)
          => (page'.text = "Connected" /\ ~page'.uploadDisabled)]_vars

\* What a port has at the server: its record, its buffer, and the state of
\* every SerialPort object constructed for it.
PortView(q) ==
    [record |-> serialConnections[q],
     buffer |-> serialDataBuffers[q],
     handles |-> [h \in Handles |->
                    IF hPort[h] = q /\ hState[h] # "unused" THEN hState[h] ELSE "none"]]

\* C22: every step of a handler changes the record, the buffer and the handles
\* of at most one port; a step that answers a connect, disconnect, send or drain
\* request (the callback of a write too) changes those of no port but the one
\* the request names, and a step of an upload those of no port but the one it
\* was given or has resolved.
C22_OtherPortsUntouched ==
    [][<<serialConnections, serialDataBuffers, hState, hPort>>'
          # <<serialConnections, serialDataBuffers, hState, hPort>> =>
       LET Touched == {q \in Ports : PortView(q)' # PortView(q)} IN
       /\ Cardinality(Touched) <= 1
       /\ (lastResp' # lastResp /\ lastResp'.port \in Ports)
             => Touched \subseteq {lastResp'.port}
       /\ \A u \in Uploads :
             upload'[u] # upload[u]
                => Touched \subseteq {upload'[u].uploadPort, upload'[u].finalUploadPort}]_vars

\* C22 witness: the callback of a write to COM5 has answered after a
\* disconnect of COM5 was through, while COM6 keeps its record, its open
\* handle and an undrained line.
C22_Witness ==
    /\ lastResp = Resp("send", "COM5", TRUE, "")
    /\ \E h \in Handles : hPort[h] = "COM5" /\ disconnecting[h] = "returned"
    /\ isOpen(serialConnections["COM6"])
    /\ serialDataBuffers["COM6"] # <<>>

\* C23: when the re-check before flashing has found a record on the resolved
\* port and closed its handle, the flash subprocess starts only after the OS
\* has confirmed the close (and the settling delay armed at the confirmation
\* has passed).
C23_RecheckWaitsForClose ==
    [][\A u \in Uploads :
          (upload[u].pc = "settle" /\ upload'[u].pc = "flash")
             => hState[upload[u].conn] = "closed"]_vars

\* The rows of a listing whose rest is one of the given texts, whatever blanks
\* surround the row, and the port such a row names.
RowsOf(lines, rests) ==
    {i \in 1 .. Len(lines) :
        \E path \in {COM5, COM6}, rest \in rests,
           pad \in {<<>>, <<" ">>}, end \in {<<>>, <<"\r">>} :
           lines[i] = pad \o Line(path, rest) \o end}

PortOfRow(line) ==
    CHOOSE port \in Ports :
        \E rest \in MarkerRests \cup PlainRests \cup DisconnectedRests,
           pad \in {<<>>, <<" ">>}, end \in {<<>>, <<"\r">>} :
           line = pad \o Line(IF port = "COM5" THEN COM5 ELSE COM6, rest) \o end

First(rows) == CHOOSE i \in rows : \A j \in rows : i <= j

\* C24: once an upload has resolved its port, a concrete port is resolved to
\* itself, and "auto" to the port of the first row of the board list that is
\* not Disconnected and names EBLOCKS, MEGA or ARDUINO in any case, or, if
\* there is none, to the port of the first row that is not Disconnected.
C24_AutoPrefersMarkedRow ==
    \A u \in Uploads :
        (upload[u].pc = "settle" \/ upload[u].flashed # "none") =>
            IF upload[u].uploadPort # Auto
            THEN upload[u].finalUploadPort = upload[u].uploadPort
            ELSE LET lines == upload[u].notes.lines
                     marked == RowsOf(lines, MarkerRests)
                     usable == RowsOf(lines, MarkerRests \cup PlainRests)
                 IN /\ marked # {} =>
                         upload[u].finalUploadPort = PortOfRow(lines[First(marked)])
                    /\ (marked = {} /\ usable # {}) =>
                         upload[u].finalUploadPort = PortOfRow(lines[First(usable)])

\* C24 witness: an "auto" upload is flashing COM6, the port of the second row,
\* which names the board in lower case behind a first row that names none.
C24_Witness ==
    \E u \in Uploads :
        /\ upload[u].uploadPort = Auto
        /\ upload[u].flashed = "running"
        /\ upload[u].notes.lines = <<Line(COM5, Unknown), Line(COM6, LOWER_MEGA)>>
        /\ upload[u].finalUploadPort = "COM6"

\* C25: whatever the index update and the platform install end with, the next
\* step is the install and then the compile; and an upload that answers after
\* its compile has ended has started the flash if the compile exited zero,
\* answers a success exactly if the flash exited zero, and an error exactly if
\* the compile or the flash failed.
C25_BestEffortNeverAborts ==
    [][\A u \in Uploads :
          LET a == upload[u]
              b == upload'[u]
          IN /\ (a.pc = "update_index" /\ b # a)
                   => (b.pc = "install" /\ b.res = a.res)
             /\ (a.pc = "install" /\ b # a)
                   => (b.pc = "compile" /\ b.res = a.res)
             /\ (a.pc # "done" /\ b.pc = "done" /\ b.compiled # "none")
                   => /\ b.compiled = "ok" => b.flashed # "none"
                      /\ b.res.status = 200 <=> b.flashed = "ok"
                      /\ b.res.status = 500 <=>
                            (b.compiled = "failed" \/ b.flashed = "failed")]_vars

\* The upload has written its sketch and its flash has not ended yet: it is
\* updating, installing, compiling, resolving the port or flashing.
Working(u) ==
    upload[u].pc \in {"update_index", "install", "compile", "board_list",
                      "settle", "flash"}

\* C26: the sketch directory of an upload that is still compiling or flashing
\* exists, whatever other uploads have cleaned up meanwhile, and no two such
\* uploads work in the same directory.
C26_OwnSketchDir ==
    \A u \in DOMAIN upload :
        Working(u) =>
            /\ upload[u].sketchDir \in dirs
            /\ \A v \in DOMAIN upload \ {u} :
                  Working(v) => upload[v].sketchDir # upload[u].sketchDir

\* C29: no two uploads have their flash subprocess running on the same port at
\* the same time.
C29_OneFlashPerPort ==
    \A u, v \in DOMAIN upload :
        (/\ u # v
         /\ upload[u].pc = "flash"
         /\ upload[v].pc = "flash")
        => upload[u].finalUploadPort # upload[v].finalUploadPort

\* C27: once a disconnect of a port has been answered and no connect request
\* is made after it, the port has no record: no step taken while the answer of
\* the disconnect is the latest answer leaves a record for the port.
C27_DisconnectedStaysDisconnected ==
    [][\A p \in Ports :
          (lastResp.op = "disconnect" /\ lastResp.port = p)
             => serialConnections'[p] = NoHandle]_vars

\* C28: an error emitted by a SerialPort object that was closed earlier leaves
\* the record of a newer connection on the same port alone: every open handle
\* keeps its record.
C28_LateErrorSparesNewerRecord ==
    \A h \in Handles :
        hState[h] = "open" => serialConnections[hPort[h]] = h

\* C30: when the page shows a connection and awaits no answer to a connect,
\* the registry holds a record for no port other than the one the page shows
\* as connected.
C30_OneMonitoringConnection ==
    (page.isConnected /\ page.calls = <<>>)
       => \A p \in Ports :
             serialConnections[p] # NoHandle => p = page.selectedPort

====
